---- MODULE Spec2Model ----
(***************************************************************************)
(* Tiered transcript retrieval pipeline of clear-transcript:               *)
(*   transcript/pipeline.ts       getTranscript, startTierCInBackground,   *)
(*                                pollForCompletion, cancelActivePoll      *)
(*   transcript/tier-c-backend.ts submitForTranscription,                  *)
(*                                checkTranscriptionStatus                 *)
(*   transcript/tier-b-fallback.ts getTierBFallback                        *)
(*   content/index.ts             handleVideoChange, fetchTranscript,      *)
(*                                handleTranscriptUpdate, cacheTranscript  *)
(*   background/cache-manager.ts  getCachedTranscript, cacheTranscript,    *)
(*                                removeCacheEntry, clearCache             *)
(*   background/message-handler.ts handleCacheTranscript,                  *)
(*                                handleGetTranscript                      *)
(*                                                                         *)
(* Scheduling is the JavaScript event loop: a synchronous section runs to  *)
(* its next await without interleaving; the continuation of an await on an *)
(* already settled promise is a microtask (FIFO queue `micro`), which runs *)
(* before any network response, timer or navigation event is handled.      *)
(* chrome.storage.local completes the operations issued to it in order     *)
(* (queue `sq`) and is taken not to fail.                                  *)
(***************************************************************************)
EXTENDS Integers, Sequences, FiniteSets, TLC

\* ------------------------------------------------------------------ bounds
MaxReq == 2
MaxAttempts == 2

Req == 1..MaxReq
Videos == {"v1", "v2"}
NoVideo == "null"

\* ------------------------------------------------------------ result values
\* TranscriptResult; `vid` is a ghost field: the video the result was
\* retrieved for (the TypeScript type carries no video id). transcript is
\* "none" (the result has no such field), "[]" or "lines".
Res(tier, source, v, status, error, description, chapters, isPartial) ==
  [tier |-> tier, source |-> source, vid |-> v, status |-> status,
   error |-> error, description |-> description, chapters |-> chapters,
   isPartial |-> isPartial, transcript |-> "none"]

\* null / undefined
NoResult == Res("none", "-", NoVideo, "-", "-", "-", 0, FALSE)

\* a rejected promise (an exception propagating out of an awaited call)
Thrown(v, msg) == Res("throw", "-", v, "-", msg, "-", 0, FALSE)

\* `data.transcript || []`: the backend sends the lines with the status
\* complete and no transcript otherwise; every result built without a
\* response body carries the status error and `transcript: []`
BodyTranscript(status) == IF status = "complete" THEN "lines" ELSE "[]"

TierCResult(v, status, error) ==
  [Res("C", "server-transcription", v, status, error, "-", 0, FALSE)
     EXCEPT !.transcript = BodyTranscript(status)]

\* ------------------------------------------------------------- Adapter C
\* settings.backendUrl values; "null" is the unset setting
BackendUrls == {"null", "not-a-url", "https://h"}

\* mutant: every string the URL parser accepts is a backend URL
isValidBackendUrl_anyProtocol(u) == u \in {"https://h", "http://h", "ftp://h"}

UrlProtocol(u) ==
  CASE u = "https://h" -> "https:"
    [] u = "http://h" -> "http:"
    [] u = "ftp://h" -> "ftp:"
    [] OTHER -> "TypeError"

isValidBackendUrl(u) ==
  LET p == UrlProtocol(u)
  IN IF p = "TypeError" THEN FALSE ELSE p = "http:" \/ p = "https:"

\* JavaScript truthiness of settings.backendUrl
Truthy(u) == u # "null" /\ u # ""

\* what one fetch to the backend can do: a 2xx response reporting a status,
\* a 404, another non-OK response, or a rejected fetch (network failure or the
\* AbortSignal timeout)
Responses == {"processing", "complete", "error", "404", "500", "netfail"}

\* the message of the exception each failing response raises inside the try
\* ("timeout": the AbortSignal.timeout of the fetch fired; "badjson": a 2xx
\* response whose body response.json() cannot parse)
ExceptionMessage(resp) ==
  CASE resp = "404" -> "Backend error: 404"
    [] resp = "500" -> "Backend error: 500"
    [] resp = "netfail" -> "Failed to fetch"
    [] resp = "timeout" -> "The operation was aborted due to timeout"
    [] resp = "badjson" -> "Unexpected end of JSON input"
    [] OTHER -> "-"

\* mutant: the try/catch is missing, the exception leaves the operation
AdapterCatch_rethrow(v, msg) == Thrown(v, msg)

\* mutant: the catch block reports every exception as 'Unknown error'
AdapterCatch_unknown(v, msg) == TierCResult(v, "error", "Unknown error")

\* the catch block of both Adapter C operations
AdapterCatch(v, msg) == TierCResult(v, "error", msg)

submitForTranscription(v, backendUrl, resp) ==
  IF ~isValidBackendUrl(backendUrl)
  THEN TierCResult(v, "error", "Invalid backend URL")
  ELSE IF resp \in {"404", "500", "netfail", "timeout", "badjson"}
       THEN AdapterCatch(v, ExceptionMessage(resp))
       ELSE TierCResult(v, resp, IF resp = "error" THEN "backend" ELSE "-")

checkTranscriptionStatus(v, backendUrl, resp) ==
  IF ~isValidBackendUrl(backendUrl)
  THEN TierCResult(v, "error", "Invalid backend URL")
  ELSE IF resp = "404"
       THEN TierCResult(v, "error", "Transcript not found")
       ELSE IF resp \in {"500", "netfail", "timeout", "badjson"}
            THEN AdapterCatch(v, ExceptionMessage(resp))
            ELSE TierCResult(v, resp, IF resp = "error" THEN "backend" ELSE "-")

\* cancelTranscription: `response.ok`, or false from the catch
cancelTranscription(v, backendUrl, resp) ==
  resp \in {"processing", "complete", "error"}

\* ------------------------------------------------------------- Adapter A/B
\* Adapter A: the caption source found for the video, or none.
TierASources == {"none", "youtube-captions", "youtube-auto-generated"}

getTierATranscript(v, src) ==
  IF src = "none" THEN NoResult
  ELSE [Res("A", src, v, "-", "-", "-", 0, FALSE) EXCEPT !.transcript = "lines"]

\* Adapter B: description text and number of chapters read from the page;
\* a page with neither, and a page with both
PageContents == {<<"", 0>>, <<"D", 1>>}

\* `!description`: null and the empty string
NoDescription(description) == description \in {"null", ""}

\* mutant: a page with only one of the two is reported as absent
getTierBFallback_needsBoth(v, description, nChapters) ==
  IF NoDescription(description) \/ nChapters = 0 THEN NoResult
  ELSE Res("B", "fallback-partial", v, "-", "-", description, nChapters, TRUE)

\* the try body, with what extractDescription and extractChapters returned;
\* an absent field of the result is "-" (description) or 0 (chapters)
getTierBFallback(v, description, nChapters) ==
  IF NoDescription(description) /\ nChapters = 0 THEN NoResult
  ELSE Res("B", "fallback-partial", v, "-", "-",
           IF NoDescription(description) THEN "-" ELSE description, nChapters, TRUE)

\* `catch (error) { return null }`, entered when an extractor throws
TierBCatch(v) == NoResult

NoBackendMessage == "No transcript available. Configure a transcription backend in settings for automatic transcription."

\* mutant: nothing available is reported as null
EmptyTierB_null(v) == NoResult

EmptyTierB(v) ==
  Res("B", "fallback-partial", v, "-", "-", NoBackendMessage, 0, TRUE)


\* ------------------------------------------------------------ result cache
\* background/cache-manager.ts; times are milliseconds
HOUR == 60 * 60 * 1000
TTL_A == 24 * HOUR
TTL_B == 1 * HOUR
TTL_C == 7 * 24 * HOUR

\* a value that is not a number (a function, or what arithmetic on one gives)
NonNumeric == -1

\* names every object literal inherits from Object.prototype
PrototypeNames == {"constructor", "toString", "valueOf", "hasOwnProperty"}

\* TIER_TTL[tier]: the table's own entries, an inherited function, or
\* undefined (0: falsy like undefined)
TierTTLLookup(tier) ==
  CASE tier = "A" -> TTL_A
    [] tier = "B" -> TTL_B
    [] tier = "C" -> TTL_C
    [] tier \in PrototypeNames -> NonNumeric
    [] OTHER -> 0

\* TIER_TTL[result.tier] || TIER_TTL.A
getTTLForResult(result) ==
  LET x == TierTTLLookup(result.tier)
  IN IF x = 0 THEN TTL_A ELSE x

\* a + b of JavaScript for a number a
Plus(a, b) == IF b = NonNumeric THEN NonNumeric ELSE a + b

\* a > b of JavaScript for a number a: false when b is not a number
Gt(a, b) == IF b = NonNumeric THEN FALSE ELSE a > b

CacheEntry(v, result, timestamp, ttl) ==
  [videoId |-> v, result |-> result, timestamp |-> timestamp, ttl |-> ttl]

\* mutant: an entry is stale from the end of its window on
Expired_early(entry, t) == t >= entry.timestamp + entry.ttl

\* Date.now() > entry.timestamp + entry.ttl
Expired(entry, t) == Gt(t, Plus(entry.timestamp, entry.ttl))

\* an empty object
EmptyMap == [v \in {} |-> 0]

\* mutant: a key that is present keeps its value
MapSet_keepExisting(obj, k, x) ==
  [u \in DOMAIN obj \cup {k} |-> IF u \in DOMAIN obj THEN obj[u] ELSE x]

\* obj[k] = x
MapSet(obj, k, x) == [u \in DOMAIN obj \cup {k} |-> IF u = k THEN x ELSE obj[u]]

\* mutant: deleting any key empties the object
MapDelete_all(obj, keys) == IF keys = {} THEN obj ELSE EmptyMap

\* delete obj[k] for each k in keys
MapDelete(obj, keys) == [u \in DOMAIN obj \ keys |-> obj[u]]

\* the tiers of the results handed to the cache: the three of the type, and
\* two that are not in the table
CacheTiers == {"A", "B", "C", "D", "constructor"}

CacheResult(v, tier) ==
  CASE tier = "A" -> getTierATranscript(v, "youtube-captions")
    [] tier = "B" -> getTierBFallback(v, "D", 1)
    [] tier = "C" -> TierCResult(v, "complete", "-")
    [] OTHER -> Res(tier, "-", v, "-", "-", "-", 0, FALSE)

\* the instants the clock is observed at: the start, and the end of each
\* freshness window counted from the start, to the millisecond
Instants == {0, TTL_B, TTL_B + 1, TTL_A, TTL_A + 1, TTL_C, TTL_C + 1}

\* ------------------------------------------------------------------ state
VARIABLES
  nreq,              \* number of getTranscript calls made so far
  pc,                \* per call: position of getTranscript / its caller
  vid,               \* per call: videoId argument
  url,               \* per call: settings.backendUrl argument
  hasCb,             \* per call: whether onUpdate was supplied
  caller,            \* per call: "api" (direct call) or "content" (fetchTranscript)
  ret,               \* per call: the value getTranscript resolved to
  bg,                \* per call: position of startTierCInBackground
  loop,              \* per call: closure of the pollForCompletion it started
  activePolls,       \* pipeline.ts activePolls: videoId -> owning call (0: no entry)
  micro,             \* microtask queue: continuations of awaits on settled promises
  currentVideoId,    \* content/index.ts
  currentTranscript, \* content/index.ts
  uiTranscript,      \* last value passed to controller.setTranscript
  netCalls,          \* ghost, per call: fetches issued to the backend
  awaited,           \* ghost, per call: backend calls getTranscript awaited
  inputs,            \* ghost, per call: what Adapter A, B and the first backend calls yielded
  nUpd,              \* ghost, per call: number of onUpdate invocations
  lastUpd,           \* ghost, per call: last result passed to onUpdate
  sawComplete,       \* ghost, per call: a checkStatus of its background flow / poll loop reported complete
  cancelSeen,        \* ghost, per call: cancelActivePoll(vid) returned after the call started
  superseded,        \* ghost, per call: its loop was cancelled by a newer pollForCompletion
  settings,          \* content/index.ts settings.backendUrl
  cacheWrites,       \* CACHE_TRANSCRIPT messages the content script has sent
  now,               \* Date.now()
  entries,           \* chrome.storage.local: videoId -> CacheEntry (keys ct_cache_<id>)
  index,             \* chrome.storage.local: ct_cache_index, videoId -> expiry
  ctask,             \* per cache task: the cache-manager operation it runs
  sq,                \* storage operations issued and not yet completed, in order
  adapter,           \* the adapter operation called directly, and its outcome
  observer           \* navigation-observer.ts: the observer, the page URL, its timers

vars == <<nreq, pc, vid, url, hasCb, caller, ret, bg, loop, activePolls, micro,
          currentVideoId, currentTranscript, uiTranscript, netCalls, awaited,
          inputs, nUpd, lastUpd, sawComplete, cancelSeen, superseded, settings,
          cacheWrites, now, entries, index, ctask, sq, adapter, observer>>

\* the whole state as one value, so that a handler is a composition of functions
Cur ==
  [nreq |-> nreq, pc |-> pc, vid |-> vid, url |-> url, hasCb |-> hasCb,
   caller |-> caller, ret |-> ret, bg |-> bg, loop |-> loop,
   activePolls |-> activePolls, micro |-> micro,
   currentVideoId |-> currentVideoId, currentTranscript |-> currentTranscript,
   uiTranscript |-> uiTranscript, netCalls |-> netCalls, awaited |-> awaited,
   inputs |-> inputs, nUpd |-> nUpd, lastUpd |-> lastUpd, sawComplete |-> sawComplete,
   cancelSeen |-> cancelSeen, superseded |-> superseded, settings |-> settings,
   cacheWrites |-> cacheWrites, now |-> now, entries |-> entries,
   index |-> index, ctask |-> ctask, sq |-> sq, adapter |-> adapter,
   observer |-> observer]

Commit(s) ==
  /\ nreq' = s.nreq /\ pc' = s.pc /\ vid' = s.vid /\ url' = s.url
  /\ hasCb' = s.hasCb /\ caller' = s.caller /\ ret' = s.ret /\ bg' = s.bg
  /\ loop' = s.loop /\ activePolls' = s.activePolls /\ micro' = s.micro
  /\ currentVideoId' = s.currentVideoId
  /\ currentTranscript' = s.currentTranscript
  /\ uiTranscript' = s.uiTranscript
  /\ netCalls' = s.netCalls /\ awaited' = s.awaited /\ inputs' = s.inputs
  /\ nUpd' = s.nUpd /\ lastUpd' = s.lastUpd /\ sawComplete' = s.sawComplete
  /\ cancelSeen' = s.cancelSeen /\ superseded' = s.superseded
  /\ settings' = s.settings
  /\ cacheWrites' = s.cacheWrites /\ now' = s.now /\ entries' = s.entries
  /\ index' = s.index /\ ctask' = s.ctask /\ sq' = s.sq
  /\ adapter' = s.adapter
  /\ observer' = s.observer

\* locals of one pollForCompletion call: attempts, cancelled, timeoutId;
\* st is the position of poll: "none" (never started), "check" (awaiting
\* checkTranscriptionStatus), "timer" (setTimeout pending), "stopped";
\* checks is a ghost: the status checks poll has issued; caught is a ghost:
\* the exception the catch block of poll was entered with
NoLoop ==
  [st |-> "none", cancelled |-> FALSE, attempts |-> 0, timeoutId |-> FALSE,
   checks |-> 0, caught |-> NoResult]
\* a / description / chapters: what the adapters found; check / submit: the
\* status and the result getTranscript got from the checkStatus and the
\* submit it awaited; bgCheck / bgSubmits: the status the background flow got
\* from its checkStatus, and the submits it called; parent / parentStatus:
\* the call whose onUpdate made this call, and the status that onUpdate was
\* handed (0 and "-" for a call made from elsewhere); earlyCancel:
\* cancelActivePoll(videoId) was called while the call or its background
\* flow awaited checkStatus or submit and had started no poll
NoInputs ==
  [a |-> "-", description |-> "-", chapters |-> 0, check |-> "-",
   submit |-> NoResult, bgCheck |-> "-", bgSubmits |-> 0,
   parent |-> 0, parentStatus |-> "-", earlyCancel |-> FALSE]

\* cache tasks: invocations of cache-manager operations that may be running
MaxTasks == 2
CTasks == 1..MaxTasks

\* locals of one cache-manager operation: op is the exported function, pc the
\* storage call it awaits, inner the helper it is in, entry / expiry / snap
\* (the index object read by getCacheIndex) / keys its local values; alone is
\* a ghost: no other cache operation has run since this one was called.
\* cleanupExpiredEntries has sweepIndex (its `index`), sweepNow (its `now`),
\* removed, todo (the entries its for loop has yet to visit) and order (the
\* key order of the stored index object); seen is a ghost: the entries stored
\* when its index was read
NoTask ==
  [op |-> "none", pc |-> "idle", inner |-> "none", v |-> NoVideo,
   entry |-> CacheEntry(NoVideo, NoResult, 0, 0), expiry |-> 0,
   snap |-> EmptyMap, keys |-> {}, ret |-> NoResult, alone |-> TRUE,
   sweepIndex |-> EmptyMap, sweepNow |-> 0, removed |-> 0, todo |-> <<>>,
   order |-> <<>>, seen |-> EmptyMap]

\* one direct call of an Adapter C operation: pc is "idle", "fetch" (awaiting
\* its fetch) or "returned"; fetches counts its calls of fetch, resp is the
\* response its fetch got, result / ok the value it resolved to
\* for getTierBFallback: description / chapters are what its extractors
\* returned, threw whether one of them threw
NoAdapterCall ==
  [op |-> "none", pc |-> "idle", v |-> NoVideo, url |-> "null", fetches |-> 0,
   resp |-> "-", result |-> NoResult, ok |-> FALSE,
   description |-> "-", chapters |-> 0, threw |-> FALSE]

\* createNavigationObserver: st is "none" (not created), "watching" or
\* "cleaned" (its cleanup function was called); href is the video id in
\* window.location.href; currentVideoId its closure variable;
\* checkVideoChangeTimer whether the 50 ms timer is pending; delayed the
\* pending `setTimeout(checkVideoChange, 100)` of ytNavigateHandler; player /
\* shorts whether #movie_player / ytd-shorts existed and are observed.
\* navs, calls and lastCall are ghosts: URL changes so far, invocations of
\* the callback, and the argument of the last one
NoObserver ==
  [st |-> "none", href |-> NoVideo, currentVideoId |-> NoVideo,
   checkVideoChangeTimer |-> FALSE, delayed |-> 0, player |-> FALSE,
   shorts |-> FALSE, navs |-> 0, calls |-> 0, lastCall |-> "-"]

\* an empty store, no cache operation running
CacheInitEmpty ==
  /\ now = 0
  /\ entries = EmptyMap
  /\ index = EmptyMap
  /\ ctask = [t \in CTasks |-> NoTask]
  /\ sq = <<>>

InitBase ==
  /\ nreq = 0
  /\ pc = [r \in Req |-> "unused"]
  /\ vid = [r \in Req |-> NoVideo]
  /\ url = [r \in Req |-> "null"]
  /\ hasCb = [r \in Req |-> FALSE]
  /\ caller = [r \in Req |-> "api"]
  /\ ret = [r \in Req |-> NoResult]
  /\ bg = [r \in Req |-> "none"]
  /\ loop = [r \in Req |-> NoLoop]
  /\ activePolls = [v \in Videos |-> 0]
  /\ micro = <<>>
  /\ currentVideoId = NoVideo
  /\ currentTranscript = NoResult
  /\ uiTranscript = NoResult
  /\ netCalls = [r \in Req |-> 0]
  /\ awaited = [r \in Req |-> 0]
  /\ inputs = [r \in Req |-> NoInputs]
  /\ nUpd = [r \in Req |-> 0]
  /\ lastUpd = [r \in Req |-> NoResult]
  /\ sawComplete = [r \in Req |-> FALSE]
  /\ cancelSeen = [r \in Req |-> FALSE]
  /\ superseded = [r \in Req |-> FALSE]
  /\ cacheWrites = {}
  /\ adapter = NoAdapterCall
  /\ observer = NoObserver


\* ------------------------------------------------- calling Adapter C (fetch)
\* An Adapter C operation called by task <<kind, r>>: with a valid URL a fetch
\* is issued and the task waits for the network; otherwise the operation
\* returns at once and the task's continuation is a microtask.
callBackend(s, kind, r) ==
  IF isValidBackendUrl(s.url[r])
  THEN [s EXCEPT !.netCalls[r] = @ + 1]
  ELSE [s EXCEPT !.micro = Append(@, <<kind, r>>)]

\* the continuation of task <<kind, r>> may run now
Resumable(kind, r) ==
  IF isValidBackendUrl(url[r])
  THEN micro = <<>>
  ELSE micro # <<>> /\ Head(micro) = <<kind, r>>

\* the queue after the continuation <<kind, r>> was taken from it
Dequeued(s, r) ==
  IF isValidBackendUrl(s.url[r]) THEN s ELSE [s EXCEPT !.micro = Tail(@)]

\* ------------------------------------------------------- content callbacks
\* content/index.ts cacheTranscript: a CACHE_TRANSCRIPT message to the
\* service worker, whose handler passes it to the cache manager's
\* cacheTranscript
contentCacheTranscript(s, v, result) ==
  [s EXCEPT !.cacheWrites = @ \cup {[videoId |-> v, result |-> result]}]

\* content/index.ts handleTranscriptUpdate
handleTranscriptUpdate(s, result) ==
  LET s1 == [s EXCEPT !.currentTranscript = result, !.uiTranscript = result]
  IN IF s.currentVideoId # NoVideo
     THEN contentCacheTranscript(s1, s.currentVideoId, result)
     ELSE s1

\* mutant: the callback is invoked twice with each result
onUpdate_twice(s, r, result) ==
  LET s1 == [s EXCEPT !.nUpd[r] = @ + 2, !.lastUpd[r] = result]
  IN IF s.caller[r] = "content" THEN handleTranscriptUpdate(s1, result) ELSE s1

\* onUpdate(result) of call r: handleTranscriptUpdate for the content script,
\* a recording callback for a direct caller
onUpdate(s, r, result) ==
  LET s1 == [s EXCEPT !.nUpd[r] = @ + 1, !.lastUpd[r] = result]
  IN IF s.caller[r] = "content" THEN handleTranscriptUpdate(s1, result) ELSE s1

\* ------------------------------------------------------------ poll registry
\* call r or its background flow awaits a backend call and has started no poll
AwaitsBackend(s, r) ==
  /\ s.loop[r].st = "none"
  /\ s.pc[r] \in {"awaitCheck", "awaitSubmit"} \/ s.bg[r] \in {"check", "submit"}

\* the ghost cancelSeen of a cancelActivePoll(v) called in state s0 and
\* giving s1
cancelRecorded(s0, s1, v) ==
  [s1 EXCEPT
     !.cancelSeen = [r \in Req |->
        IF s0.pc[r] # "unused" /\ s0.vid[r] = v THEN TRUE ELSE @[r]]]

\* the same, with the ghost earlyCancel of the calls it found waiting
cancelTraced(s0, s1, v) ==
  [cancelRecorded(s0, s1, v) EXCEPT
     !.inputs = [r \in Req |->
        IF s0.pc[r] # "unused" /\ s0.vid[r] = v /\ AwaitsBackend(s0, r)
        THEN [@[r] EXCEPT !.earlyCancel = TRUE] ELSE @[r]]]

\* the cancel closure registered by the loop of call l
cancelHandle(s, l) ==
  LET c == s.loop[l]
  IN [s EXCEPT
        !.loop[l] = [c EXCEPT !.cancelled = TRUE,
                              !.timeoutId = FALSE,
                              !.st = IF c.timeoutId /\ c.st = "timer" THEN "stopped" ELSE c.st],
        !.activePolls[s.vid[l]] = 0]

\* mutant: every registered poll is cancelled, whatever its videoId
cancelActivePoll_all(s, v) ==
  LET s1 == IF s.activePolls["v1"] # 0
            THEN cancelHandle(s, s.activePolls["v1"]) ELSE s
  IN IF s1.activePolls["v2"] # 0
     THEN cancelHandle(s1, s1.activePolls["v2"]) ELSE s1

cancelActivePoll(s, v) ==
  IF s.activePolls[v] # 0
  THEN [cancelHandle(s, s.activePolls[v]) EXCEPT !.activePolls[v] = 0]
  ELSE s

\* mutant: a new poll does not cancel the registered one
supersede_nothing(s, v) == s

\* pollForCompletion's first statement
supersede(s, v) == cancelActivePoll(s, v)

\* mutant: the re-check is inverted
cancelledAfterAwait_inverted(c) == ~c.cancelled

\* mutant: the flag is not looked at after the await
cancelledAfterAwait_never(c) == FALSE

\* the re-check of the cancelled flag after the await in poll
cancelledAfterAwait(c) == c.cancelled

\* mutant: every status keeps the loop going
keepsPolling_always(result) == TRUE

\* whether a status keeps the loop going
keepsPolling(result) == result.status = "processing"

TimeoutResult(v) == TierCResult(v, "error", "Transcription timeout")

\* mutant: the attempt limit is off by one
attemptsExhausted_offByOne(c) == c.attempts > MaxAttempts

\* `if (attempts >= maxAttempts)`
attemptsExhausted(c) == c.attempts >= MaxAttempts

\* mutant: the loop that ran out of attempts leaves its handle registered
poll_keepsHandle(s, r) ==
  LET c == s.loop[r]
  IN IF c.cancelled
     THEN [s EXCEPT !.loop[r].st = "stopped"]
     ELSE IF attemptsExhausted(c)
          THEN onUpdate([s EXCEPT !.loop[r].st = "stopped"], r, TimeoutResult(s.vid[r]))
          ELSE callBackend([s EXCEPT !.loop[r].st = "check",
                                     !.loop[r].checks = @ + 1], "poll", r)

\* one call of poll() up to its await
poll(s, r) ==
  LET c == s.loop[r]
      v == s.vid[r]
  IN IF c.cancelled
     THEN [s EXCEPT !.loop[r].st = "stopped"]
     ELSE IF attemptsExhausted(c)
          THEN onUpdate([s EXCEPT !.activePolls[v] = 0, !.loop[r].st = "stopped"],
                        r, TimeoutResult(v))
          ELSE callBackend([s EXCEPT !.loop[r].st = "check",
                                     !.loop[r].checks = @ + 1], "poll", r)

\* `error instanceof Error ? error.message : 'Poll failed'` (a thrown value
\* that is not an Error has no message: "-")
PollErrorMessage(err) == IF err.error = "-" THEN "Poll failed" ELSE err.error

\* mutant: the catch block reports the error and leaves the handle registered
pollCatch_keepsHandle(s, r, err) ==
  LET s1 == [s EXCEPT !.loop[r].caught = err, !.loop[r].st = "stopped"]
  IN IF s.loop[r].cancelled
     THEN s1
     ELSE onUpdate(s1, r, TierCResult(s.vid[r], "error", PollErrorMessage(err)))

\* the catch block of poll, entered with the exception err
pollCatch(s, r, err) ==
  LET s1 == [s EXCEPT !.loop[r].caught = err, !.loop[r].st = "stopped"]
  IN IF s.loop[r].cancelled
     THEN s1
     ELSE onUpdate([s1 EXCEPT !.activePolls[s.vid[r]] = 0],
                   r, TierCResult(s.vid[r], "error", PollErrorMessage(err)))

\* poll() from the resolution of its checkTranscriptionStatus on, with a
\* callback that returns normally
pollResume(s, r, result) ==
  LET c == s.loop[r]
      v == s.vid[r]
      s0 == [s EXCEPT !.sawComplete[r] = @ \/ result.status = "complete"]
  IN IF result.tier = "throw"
     THEN pollCatch(s0, r, result)
     ELSE IF cancelledAfterAwait(c)
          THEN [s0 EXCEPT !.loop[r].st = "stopped"]
          ELSE LET s1 == onUpdate(s0, r, result)
               IN IF keepsPolling(result)
                  THEN [s1 EXCEPT !.loop[r].attempts = @ + 1,
                                  !.loop[r].timeoutId = TRUE,
                                  !.loop[r].st = "timer"]
                  ELSE [s1 EXCEPT !.activePolls[v] = 0, !.loop[r].st = "stopped"]

\* poll() from the resolution of its checkTranscriptionStatus on, with a
\* callback that throws err when it is handed the result, after having
\* called cancelActivePoll(videoId) itself when cancels is true: the throw
\* leaves the try before `attempts++` / `activePolls.delete`
pollResumeCallbackThrows(s, r, result, err, cancels) ==
  LET c == s.loop[r]
      v == s.vid[r]
      s0 == [s EXCEPT !.sawComplete[r] = @ \/ result.status = "complete"]
  IN IF cancelledAfterAwait(c)
     THEN [s0 EXCEPT !.loop[r].st = "stopped"]
     ELSE LET s1 == onUpdate(s0, r, result)
              s2 == IF cancels
                    THEN cancelRecorded(s1, cancelActivePoll(s1, v), v)
                    ELSE s1
          IN pollCatch(s2, r, err)

pollForCompletion(s, r) ==
  LET v == s.vid[r]
      old == s.activePolls[v]
      s1 == supersede(s, v)
      s2 == IF old # 0 THEN [s1 EXCEPT !.superseded[old] = TRUE] ELSE s1
      s3 == [s2 EXCEPT !.loop[r] = [NoLoop EXCEPT !.st = "check"],
                       !.activePolls[v] = r]
  IN poll(s3, r)

\* mutant: the poll is started without looking at the callback
pollIfCallback_always(s, r) == pollForCompletion(s, r)

\* `if (onUpdate)` before each pollForCompletion call
pollIfCallback(s, r) == IF s.hasCb[r] THEN pollForCompletion(s, r) ELSE s


\* ------------------------------------------------- startTierCInBackground
\* up to its first await
startTierCInBackground(s, r) ==
  callBackend([s EXCEPT !.bg[r] = "check"], "bg", r)

\* from the resolution of `await checkTranscriptionStatus` on
bgCheckResume(s, r, existing) ==
  LET s0 == [s EXCEPT !.sawComplete[r] = @ \/ existing.status = "complete",
                      !.inputs[r].bgCheck = existing.status]
  IN IF existing.tier = "throw"
     THEN [s0 EXCEPT !.bg[r] = "done"]
     ELSE IF existing.status = "complete"
          THEN LET s1 == [s0 EXCEPT !.bg[r] = "done"]
               IN IF s.hasCb[r] THEN onUpdate(s1, r, existing) ELSE s1
          ELSE IF existing.status # "processing"
               THEN callBackend([s0 EXCEPT !.bg[r] = "submit",
                                           !.inputs[r].bgSubmits = @ + 1], "bg", r)
               ELSE pollIfCallback([s0 EXCEPT !.bg[r] = "done"], r)

\* mutant: the poll is started whether or not a callback was supplied
bgSubmitResume_pollAlways(s, r, submission) ==
  pollForCompletion([s EXCEPT !.bg[r] = "done"], r)

\* from the resolution of `await submitForTranscription` on
bgSubmitResume(s, r, submission) ==
  IF submission.tier = "throw"
  THEN [s EXCEPT !.bg[r] = "done"]
  ELSE pollIfCallback([s EXCEPT !.bg[r] = "done"], r)

\* ------------------------------------------------------------ getTranscript
\* mutant: only a Tier B value counts as a result
isPresent_onlyB(result) == result.tier = "B"

\* `if (tierAResult)`, `if (tierBResult)`
isPresent(result) == result.tier # "none"

\* `if (settings.backendUrl)`
backendConfigured(u) == Truthy(u)

\* `return x` of the async function: the promise resolves and the awaiting
\* caller's continuation is queued
returnResult(s, r, result) ==
  [s EXCEPT !.ret[r] = result, !.pc[r] = "returned",
            !.micro = Append(@, <<"caller", r>>)]

\* an exception leaves getTranscript: the promise rejects
rejectWith(s, r, err) ==
  [s EXCEPT !.ret[r] = err, !.pc[r] = "rejected",
            !.micro = Append(@, <<"caller", r>>)]

\* from the resolution of `await getTierATranscript` to the next await
afterTierA(s, r, tierAResult) ==
  IF tierAResult.tier = "throw"
  THEN rejectWith(s, r, tierAResult)
  ELSE IF isPresent(tierAResult)
       THEN returnResult(s, r, tierAResult)
       ELSE [s EXCEPT !.pc[r] = "awaitB", !.micro = Append(@, <<"req", r>>)]

\* mutant: the background Tier C flow is never started
afterTierB_noBackground(s, r, tierBResult) ==
  IF isPresent(tierBResult)
  THEN returnResult(s, r, tierBResult)
  ELSE IF backendConfigured(s.url[r])
       THEN callBackend([s EXCEPT !.pc[r] = "awaitCheck"], "req", r)
       ELSE returnResult(s, r, EmptyTierB(s.vid[r]))

\* from the resolution of `await getTierBFallback` to the next await
afterTierB(s, r, tierBResult) ==
  IF isPresent(tierBResult)
  THEN LET s1 == IF backendConfigured(s.url[r])
                 THEN startTierCInBackground(s, r)
                 ELSE s
       IN returnResult(s1, r, tierBResult)
  ELSE IF backendConfigured(s.url[r])
       THEN callBackend([s EXCEPT !.pc[r] = "awaitCheck"], "req", r)
       ELSE returnResult(s, r, EmptyTierB(s.vid[r]))

\* mutant: a transcription that is already processing is submitted again
afterCheck_resubmit(s, r, existingResult) ==
  LET s0 == [s EXCEPT !.awaited[r] = @ + 1,
                      !.inputs[r].check = existingResult.status]
  IN IF existingResult.status = "complete"
     THEN returnResult(s0, r, existingResult)
     ELSE callBackend([s0 EXCEPT !.pc[r] = "awaitSubmit"], "req", r)

\* from the resolution of `await checkTranscriptionStatus` to the next await
afterCheck(s, r, existingResult) ==
  LET s0 == [s EXCEPT !.awaited[r] = @ + 1,
                      !.inputs[r].check = existingResult.status]
  IN IF existingResult.tier = "throw"
     THEN rejectWith(s0, r, existingResult)
     ELSE IF existingResult.status = "complete"
          THEN returnResult(s0, r, existingResult)
          ELSE IF existingResult.status # "processing"
               THEN callBackend([s0 EXCEPT !.pc[r] = "awaitSubmit"], "req", r)
               ELSE returnResult(pollIfCallback(s0, r), r, existingResult)

\* mutant: a failed submission is submitted again before returning
afterSubmit_retry(s, r, submissionResult) ==
  LET s0 == [s EXCEPT !.awaited[r] = @ + 1]
  IN IF submissionResult.tier = "throw"
     THEN rejectWith(s0, r, submissionResult)
     ELSE IF submissionResult.status = "error" /\ s.awaited[r] < 3
          THEN callBackend(s0, "req", r)
          ELSE returnResult(pollIfCallback(s0, r), r, submissionResult)

\* from the resolution of `await submitForTranscription` to the return
afterSubmit(s, r, submissionResult) ==
  LET s0 == [s EXCEPT !.awaited[r] = @ + 1,
                      !.inputs[r].submit = submissionResult]
  IN IF submissionResult.tier = "throw"
     THEN rejectWith(s0, r, submissionResult)
     ELSE returnResult(pollIfCallback(s0, r), r, submissionResult)

\* the call itself: runs up to `await getTierATranscript`
getTranscript(s, v, backendUrl, cb, who) ==
  LET r == s.nreq + 1
  IN [s EXCEPT !.nreq = r, !.pc[r] = "awaitA", !.vid[r] = v,
               !.url[r] = backendUrl, !.hasCb[r] = cb, !.caller[r] = who]

\* ------------------------------------------- callbacks that call the module
\* what a caller's onUpdate may do with the exported functions while it runs
CallbackActs == {"cancel", "retrieve"}

\* mutant: the callback's retrieval registers its poll before the callback
\* returns
callbackActs_pollsAtOnce(s, r, result, act) ==
  LET q == s.nreq + 1
      s1 == getTranscript(s, s.vid[r], s.url[r], TRUE, "api")
  IN pollForCompletion([s1 EXCEPT !.inputs[q].parent = r,
                                  !.inputs[q].parentStatus = result.status], q)

\* the body of an onUpdate that, handed result, calls cancelActivePoll(videoId)
\* or getTranscript(videoId, settings, onUpdate); the promise getTranscript
\* returns is pending when the callback returns
callbackActs(s, r, result, act) ==
  IF act = "cancel"
  THEN cancelRecorded(s, cancelActivePoll(s, s.vid[r]), s.vid[r])
  ELSE LET q == s.nreq + 1
           s1 == getTranscript(s, s.vid[r], s.url[r], TRUE, "api")
       IN [s1 EXCEPT !.inputs[q].parent = r,
                     !.inputs[q].parentStatus = result.status]

\* poll() from the resolution of its checkTranscriptionStatus on, with a
\* callback that acts on the module and returns normally
pollResumeCallbackActs(s, r, result, act) ==
  LET c == s.loop[r]
      v == s.vid[r]
      s0 == [s EXCEPT !.sawComplete[r] = @ \/ result.status = "complete"]
  IN IF cancelledAfterAwait(c)
     THEN [s0 EXCEPT !.loop[r].st = "stopped"]
     ELSE LET s1 == callbackActs(onUpdate(s0, r, result), r, result, act)
          IN IF keepsPolling(result)
             THEN [s1 EXCEPT !.loop[r].attempts = @ + 1,
                             !.loop[r].timeoutId = TRUE,
                             !.loop[r].st = "timer"]
             ELSE [s1 EXCEPT !.activePolls[v] = 0, !.loop[r].st = "stopped"]

\* ------------------------------------------------------------ content script
\* content/index.ts fetchTranscript up to `await getTranscript`
fetchTranscript(s, r) ==
  [s EXCEPT !.pc[r] = "awaitA", !.url[r] = s.settings, !.hasCb[r] = TRUE]

\* fetchTranscript after `await getTranscript`: the try body, or the catch
fetchTranscriptResume(s, r) ==
  IF s.pc[r] = "rejected"
  THEN [s EXCEPT !.pc[r] = "failed"]
  ELSE contentCacheTranscript([s EXCEPT !.pc[r] = "done",
                                         !.currentTranscript = s.ret[r],
                                         !.uiTranscript = s.ret[r]],
                              s.vid[r], s.ret[r])

\* handleVideoChange up to `await handlePageStateChange(state)`
handleVideoChange(s, v) ==
  IF v = s.currentVideoId
  THEN s
  ELSE LET r == s.nreq + 1
       IN [s EXCEPT !.currentVideoId = v, !.currentTranscript = NoResult,
                    !.nreq = r, !.pc[r] = "navWait", !.vid[r] = v,
                    !.caller[r] = "content"]

\* handlePageStateChange after waitForPlayer (injected: the UI is injected
\* and the player was found), then the rest of handleVideoChange
handleVideoChangeResume(s, r, injected) ==
  LET s1 == IF injected /\ s.currentTranscript # NoResult
            THEN [s EXCEPT !.uiTranscript = s.currentTranscript]
            ELSE s
  IN IF s.vid[r] # NoVideo
     THEN fetchTranscript(s1, r)
     ELSE [s1 EXCEPT !.pc[r] = "done"]

\* ------------------------------------------------- cache-manager operations
\* task t calls a chrome.storage.local operation and awaits it at pc
awaitStorage(s, t, call) ==
  [s EXCEPT !.ctask[t].pc = call, !.sq = Append(@, t)]

\* the exported operation of task t returns (its locals are gone)
cacheReturn(s, t, value) ==
  [s EXCEPT !.ctask[t] = [NoTask EXCEPT !.op = s.ctask[t].op, !.v = s.ctask[t].v,
                                        !.pc = "done", !.ret = value,
                                        !.alone = s.ctask[t].alone]]

\* getCachedTranscript up to `await chrome.storage.local.get(key)`
getCachedTranscript(s, t, v) ==
  awaitStorage([s EXCEPT !.ctask[t] = [NoTask EXCEPT !.op = "getCachedTranscript",
                                                     !.v = v]],
               t, "get")

\* removeCacheEntry up to `await chrome.storage.local.remove(key)`
removeCacheEntryBody(s, t) ==
  awaitStorage([s EXCEPT !.ctask[t].inner = "removeCacheEntry"], t, "remove")

removeCacheEntry(s, t, v) ==
  removeCacheEntryBody([s EXCEPT !.ctask[t] = [NoTask EXCEPT !.op = "removeCacheEntry",
                                                             !.v = v]], t)

\* getCachedTranscript from the resolution of the get on
getResume(s, t) ==
  LET v == s.ctask[t].v
  IN IF v \notin DOMAIN s.entries
     THEN cacheReturn(s, t, NoResult)
     ELSE IF Expired(s.entries[v], s.now)
          THEN removeCacheEntryBody(s, t)
          ELSE cacheReturn(s, t, s.entries[v].result)

\* cacheTranscript up to `await chrome.storage.local.set({ [key]: entry })`
cacheTranscript(s, t, v, result) ==
  awaitStorage([s EXCEPT !.ctask[t] =
                  [NoTask EXCEPT !.op = "cacheTranscript", !.v = v,
                                 !.entry = CacheEntry(v, result, s.now,
                                                      getTTLForResult(result))]],
               t, "set")

\* the entry is stored; cacheTranscript calls updateCacheIndex(videoId,
\* Date.now() + ttl), which runs up to the await in getCacheIndex
setResume(s, t) ==
  LET c == s.ctask[t]
      s1 == [s EXCEPT !.entries = MapSet(@, c.v, c.entry),
                      !.ctask[t].inner = "updateCacheIndex",
                      !.ctask[t].expiry = Plus(s.now, c.entry.ttl)]
  IN awaitStorage(s1, t, "indexGet")

\* the key is removed; removeCacheEntry calls removeFromCacheIndex
removeResume(s, t) ==
  LET c == s.ctask[t]
      s1 == [s EXCEPT !.entries = MapDelete(@, {c.v}),
                      !.ctask[t].inner = "removeFromCacheIndex"]
  IN awaitStorage(s1, t, "indexGet")

\* clearCache up to the await in getCacheIndex
clearCache(s, t) ==
  awaitStorage([s EXCEPT !.ctask[t] = [NoTask EXCEPT !.op = "clearCache",
                                                     !.inner = "clearCache"]],
               t, "indexGet")

\* cleanupExpiredEntries up to the await in getCacheIndex; order is the order
\* in which Object.entries will list the keys of the index
cleanupExpiredEntries(s, t, order) ==
  awaitStorage([s EXCEPT !.ctask[t] =
                  [NoTask EXCEPT !.op = "cleanupExpiredEntries",
                                 !.inner = "cleanupExpiredEntries",
                                 !.order = order]],
               t, "indexGet")

\* `return removed`
sweepReturn(s, t) ==
  [cacheReturn(s, t, NoResult) EXCEPT !.ctask[t].v = NoVideo,
                                      !.ctask[t].removed = s.ctask[t].removed]

\* `if (now > expiry)`
sweepExpired(t0, expiry) == Gt(t0, expiry)

\* the for loop of cleanupExpiredEntries from its next entry to the await of
\* removeCacheEntry, or to the return
RECURSIVE sweepLoop(_, _)
sweepLoop(s, t) ==
  LET c == s.ctask[t]
  IN IF c.todo = <<>>
     THEN sweepReturn(s, t)
     ELSE LET k == Head(c.todo)
              s1 == [s EXCEPT !.ctask[t].todo = Tail(@)]
          IN IF sweepExpired(c.sweepNow, c.sweepIndex[k])
             THEN removeCacheEntryBody([s1 EXCEPT !.ctask[t].v = k], t)
             ELSE sweepLoop(s1, t)

\* getCacheIndex resolves with the stored index (or {}); its caller changes
\* its copy and stores it, or (clearCache) removes the keys it lists, or
\* (cleanupExpiredEntries) reads the clock and starts its loop
indexGetResume(s, t) ==
  LET c == s.ctask[t]
  IN CASE c.inner = "updateCacheIndex" ->
            awaitStorage([s EXCEPT !.ctask[t].snap = MapSet(s.index, c.v, c.expiry)],
                         t, "indexSet")
       [] c.inner = "removeFromCacheIndex" ->
            awaitStorage([s EXCEPT !.ctask[t].snap = MapDelete(s.index, {c.v})],
                         t, "indexSet")
       [] c.inner = "cleanupExpiredEntries" ->
            sweepLoop([s EXCEPT !.ctask[t].sweepIndex = s.index,
                                !.ctask[t].sweepNow = s.now,
                                !.ctask[t].todo =
                                   SelectSeq(c.order, LAMBDA k : k \in DOMAIN s.index),
                                !.ctask[t].seen = s.entries], t)
       [] OTHER ->
            awaitStorage([s EXCEPT !.ctask[t].keys = DOMAIN s.index], t, "removeKeys")

\* `set({ [CACHE_INDEX_KEY]: index })` is done: the helper and its caller
\* return; getCachedTranscript returns null after removing a stale entry,
\* cleanupExpiredEntries counts the removal and goes on with its loop
indexSetResume(s, t) ==
  LET s1 == [s EXCEPT !.index = s.ctask[t].snap]
  IN IF s.ctask[t].op = "cleanupExpiredEntries"
     THEN sweepLoop([s1 EXCEPT !.ctask[t].removed = @ + 1], t)
     ELSE cacheReturn(s1, t, NoResult)

\* clearCache's `remove(keys)` is done: the listed entries and the index key
removeKeysResume(s, t) ==
  cacheReturn([s EXCEPT !.entries = MapDelete(@, s.ctask[t].keys),
                        !.index = EmptyMap], t, NoResult)

\* the storage operation at the head of the queue completes and the task
\* awaiting it continues to its next await
storageResume(s, t) ==
  LET s1 == [s EXCEPT !.sq = Tail(@)]
      pc1 == s.ctask[t].pc
  IN CASE pc1 = "get" -> getResume(s1, t)
       [] pc1 = "set" -> setResume(s1, t)
       [] pc1 = "remove" -> removeResume(s1, t)
       [] pc1 = "indexGet" -> indexGetResume(s1, t)
       [] pc1 = "indexSet" -> indexSetResume(s1, t)
       [] OTHER -> removeKeysResume(s1, t)

\* ------------------------------------------------------------------ actions
\* a direct call of the exported getTranscript
CallGetTranscript ==
  /\ nreq < MaxReq
  /\ \E v \in Videos, u \in BackendUrls, cb \in BOOLEAN :
       Commit(getTranscript(Cur, v, u, cb, "api"))

\* a direct call of the exported cancelActivePoll
CancelActivePoll ==
  \E v \in Videos :
    /\ \E r \in Req : pc[r] # "unused" /\ vid[r] = v /\ ~cancelSeen[r]
    /\ Commit(cancelRecorded(Cur, cancelActivePoll(Cur, v), v))

\* the navigation observer reports a new video id (or none)
HandleVideoChange ==
  /\ micro = <<>>
  /\ nreq < MaxReq
  /\ \E v \in Videos \cup {NoVideo} :
       /\ v # currentVideoId
       /\ Commit(handleVideoChange(Cur, v))

NavReady ==
  \E r \in Req :
    /\ pc[r] = "navWait"
    /\ micro = <<>>
    /\ \E injected \in BOOLEAN : Commit(handleVideoChangeResume(Cur, r, injected))

TierAResolved ==
  \E r \in Req :
    /\ pc[r] = "awaitA"
    /\ micro = <<>>
    /\ \E src \in TierASources :
         Commit(afterTierA([Cur EXCEPT !.inputs[r].a = src], r,
                           getTierATranscript(vid[r], src)))

TierBResolved ==
  \E r \in Req :
    /\ pc[r] = "awaitB"
    /\ micro # <<>> /\ Head(micro) = <<"req", r>>
    /\ \E page \in PageContents :
         Commit(afterTierB([Cur EXCEPT !.micro = Tail(@),
                                       !.inputs[r].description = page[1],
                                       !.inputs[r].chapters = page[2]],
                           r, getTierBFallback(vid[r], page[1], page[2])))

\* the responses a call with this URL can see (none is read for an invalid URL)
ResponsesFor(u) == IF isValidBackendUrl(u) THEN Responses ELSE {"-"}

CheckResolved ==
  \E r \in Req :
    /\ pc[r] = "awaitCheck"
    /\ Resumable("req", r)
    /\ \E resp \in ResponsesFor(url[r]) :
         Commit(afterCheck(Dequeued(Cur, r), r,
                           checkTranscriptionStatus(vid[r], url[r], resp)))

SubmitResolved ==
  \E r \in Req :
    /\ pc[r] = "awaitSubmit"
    /\ Resumable("req", r)
    /\ \E resp \in ResponsesFor(url[r]) :
         Commit(afterSubmit(Dequeued(Cur, r), r,
                            submitForTranscription(vid[r], url[r], resp)))

BgCheckResolved ==
  \E r \in Req :
    /\ bg[r] = "check"
    /\ Resumable("bg", r)
    /\ \E resp \in ResponsesFor(url[r]) :
         Commit(bgCheckResume(Dequeued(Cur, r), r,
                              checkTranscriptionStatus(vid[r], url[r], resp)))

BgSubmitResolved ==
  \E r \in Req :
    /\ bg[r] = "submit"
    /\ Resumable("bg", r)
    /\ \E resp \in ResponsesFor(url[r]) :
         Commit(bgSubmitResume(Dequeued(Cur, r), r,
                               submitForTranscription(vid[r], url[r], resp)))

PollCheckResolved ==
  \E r \in Req :
    /\ loop[r].st = "check"
    /\ Resumable("poll", r)
    /\ \E resp \in ResponsesFor(url[r]) :
         Commit(pollResume(Dequeued(Cur, r), r,
                           checkTranscriptionStatus(vid[r], url[r], resp)))

\* setTimeout(poll, intervalMs) fires
TimerFired ==
  \E r \in Req :
    /\ loop[r].st = "timer"
    /\ micro = <<>>
    /\ Commit(poll(Cur, r))

\* the caller's `await getTranscript(...)` continues
CallerResumed ==
  \E r \in Req :
    /\ pc[r] \in {"returned", "rejected"}
    /\ micro # <<>> /\ Head(micro) = <<"caller", r>>
    /\ LET s == [Cur EXCEPT !.micro = Tail(@)]
       IN IF caller[r] = "content"
          THEN Commit(fetchTranscriptResume(s, r))
          ELSE Commit([s EXCEPT !.pc[r] = IF pc[r] = "rejected" THEN "failed" ELSE "done"])

Pipeline ==
  \/ TierAResolved
  \/ TierBResolved
  \/ CheckResolved
  \/ SubmitResolved
  \/ BgCheckResolved
  \/ BgSubmitResolved
  \/ PollCheckResolved
  \/ TimerFired
  \/ CallerResumed

\* the pipeline module driven through its exported functions
Init == InitBase /\ settings = "null" /\ CacheInitEmpty

Next ==
  \/ CallGetTranscript
  \/ CancelActivePoll
  \/ TierAResolved
  \/ TierBResolved
  \/ CheckResolved
  \/ SubmitResolved
  \/ BgCheckResolved
  \/ BgSubmitResolved
  \/ PollCheckResolved
  \/ TimerFired
  \/ CallerResumed

Spec == Init /\ [][Next]_vars

\* the content script: navigation drives the pipeline
\* the store is empty, or holds what an earlier visit of v1 cached
CachedEarlier == CacheEntry("v1", CacheResult("v1", "A"), 0, getTTLForResult(CacheResult("v1", "A")))

ContentInit ==
  /\ InitBase
  /\ settings \in BackendUrls
  /\ now = 0 /\ ctask = [t \in CTasks |-> NoTask] /\ sq = <<>>
  /\ \/ entries = EmptyMap /\ index = EmptyMap
     \/ /\ entries = MapSet(EmptyMap, "v1", CachedEarlier)
        /\ index = MapSet(EmptyMap, "v1", Plus(0, CachedEarlier.ttl))

ContentNext ==
  \/ HandleVideoChange
  \/ NavReady
  \/ TierAResolved
  \/ TierBResolved
  \/ CheckResolved
  \/ SubmitResolved
  \/ BgCheckResolved
  \/ BgSubmitResolved
  \/ PollCheckResolved
  \/ TimerFired
  \/ CallerResumed

ContentSpec == ContentInit /\ [][ContentNext]_vars


\* one retrieval, with the scheduling the event loop guarantees: queued
\* microtasks run, timers fire, and every fetch settles (each carries a timeout)
SoloCall == nreq = 0 /\ CallGetTranscript

SoloNext ==
  \/ SoloCall
  \/ CancelActivePoll
  \/ TierAResolved
  \/ TierBResolved
  \/ CheckResolved
  \/ SubmitResolved
  \/ BgCheckResolved
  \/ BgSubmitResolved
  \/ PollCheckResolved
  \/ TimerFired
  \/ CallerResumed

LiveSpec ==
  /\ Init
  /\ [][SoloNext]_vars
  /\ WF_vars(TierAResolved)
  /\ WF_vars(TierBResolved)
  /\ WF_vars(CheckResolved)
  /\ WF_vars(SubmitResolved)
  /\ WF_vars(BgCheckResolved)
  /\ WF_vars(BgSubmitResolved)
  /\ WF_vars(PollCheckResolved)
  /\ WF_vars(TimerFired)
  /\ WF_vars(CallerResumed)

\* what a caller's onUpdate can throw: an Error with a message, or a value
\* that is not an Error
CallbackExceptions(v) == {Thrown(v, "callback failed"), Thrown(v, "-")}

\* the status check of a loop resolves and the caller's onUpdate throws
PollCallbackThrew ==
  \E r \in Req :
    /\ loop[r].st = "check" /\ ~loop[r].cancelled
    /\ caller[r] = "api"
    /\ Resumable("poll", r)
    /\ \E resp \in ResponsesFor(url[r]), err \in CallbackExceptions(vid[r]),
          cancels \in BOOLEAN :
         Commit(pollResumeCallbackThrows(Dequeued(Cur, r), r,
                                         checkTranscriptionStatus(vid[r], url[r], resp),
                                         err, cancels))

\* one retrieval by a caller whose onUpdate may throw
ThrowingNext ==
  \/ SoloCall
  \/ CancelActivePoll
  \/ TierAResolved
  \/ TierBResolved
  \/ CheckResolved
  \/ SubmitResolved
  \/ BgCheckResolved
  \/ BgSubmitResolved
  \/ PollCheckResolved
  \/ PollCallbackThrew
  \/ TimerFired
  \/ CallerResumed

ThrowingSpec == Init /\ [][ThrowingNext]_vars

\* a direct call of the exported cancelActivePoll, with a record of the
\* calls it found waiting for the backend
CancelActivePollTraced ==
  \E v \in Videos :
    /\ \E r \in Req : pc[r] # "unused" /\ vid[r] = v /\ ~cancelSeen[r]
    /\ Commit(cancelTraced(Cur, cancelActivePoll(Cur, v), v))

\* one retrieval, and cancelActivePoll called at any moment of it
EarlyCancelNext ==
  \/ SoloCall
  \/ CancelActivePollTraced
  \/ TierAResolved
  \/ TierBResolved
  \/ CheckResolved
  \/ SubmitResolved
  \/ BgCheckResolved
  \/ BgSubmitResolved
  \/ PollCheckResolved
  \/ TimerFired
  \/ CallerResumed

EarlyCancelSpec == Init /\ [][EarlyCancelNext]_vars

\* the status check of a loop resolves and the caller's onUpdate calls back
\* into the module
PollCallbackActed ==
  \E r \in Req :
    /\ loop[r].st = "check" /\ ~loop[r].cancelled
    /\ caller[r] = "api"
    /\ Resumable("poll", r)
    /\ \E resp \in ResponsesFor(url[r]), act \in CallbackActs :
         /\ act = "retrieve" => nreq < MaxReq
         /\ Commit(pollResumeCallbackActs(Dequeued(Cur, r), r,
                                          checkTranscriptionStatus(vid[r], url[r], resp),
                                          act))

\* one retrieval by a caller whose onUpdate may cancel the poll or retrieve
\* the same video again
ReentrantNext ==
  \/ SoloCall
  \/ CancelActivePoll
  \/ TierAResolved
  \/ TierBResolved
  \/ CheckResolved
  \/ SubmitResolved
  \/ BgCheckResolved
  \/ BgSubmitResolved
  \/ PollCheckResolved
  \/ PollCallbackActed
  \/ TimerFired
  \/ CallerResumed

ReentrantSpec == Init /\ [][ReentrantNext]_vars

\* ------------------------------------------------------------ cache actions
\* no cache operation is running
CacheIdle == sq = <<>> /\ \A t \in CTasks : ctask[t].pc \in {"idle", "done"}

CallCacheTranscript ==
  /\ CacheIdle
  /\ \E v \in Videos, tier \in CacheTiers :
       Commit(cacheTranscript(Cur, 1, v, CacheResult(v, tier)))

CallGetCachedTranscript ==
  /\ CacheIdle
  /\ \E v \in Videos : Commit(getCachedTranscript(Cur, 1, v))

CallRemoveCacheEntry ==
  /\ CacheIdle
  /\ \E v \in Videos : Commit(removeCacheEntry(Cur, 1, v))

CallClearCache ==
  /\ CacheIdle
  /\ Commit(clearCache(Cur, 1))

StorageDone ==
  /\ sq # <<>>
  /\ Commit(storageResume(Cur, Head(sq)))

\* time passes
Tick ==
  \E t \in Instants :
    /\ t > now
    /\ Commit([Cur EXCEPT !.now = t])

\* the cache manager driven through its exported functions, one call at a time
CacheInit == InitBase /\ settings = "null" /\ CacheInitEmpty

CacheNext ==
  \/ CallCacheTranscript
  \/ CallGetCachedTranscript
  \/ CallRemoveCacheEntry
  \/ CallClearCache
  \/ StorageDone
  \/ Tick

CacheSpec == CacheInit /\ [][CacheNext]_vars

\* the service worker: a CACHE_TRANSCRIPT message is handled when it arrives,
\* also while the handler of an earlier one awaits the storage
Running(s, t) == s.ctask[t].pc \notin {"idle", "done"}

\* the lowest task that is not running
FreeTask == CHOOSE t \in CTasks : ~Running(Cur, t) /\ \A u \in 1..(t - 1) : Running(Cur, u)

\* task t was called in state s0, which gave s1: the tasks that overlap
\* are no longer alone
calledWhile(s0, s1, t) ==
  [s1 EXCEPT !.ctask =
     [u \in CTasks |->
        IF u = t
        THEN [s1.ctask[u] EXCEPT !.alone = \A w \in CTasks \ {t} : ~Running(s0, w)]
        ELSE IF Running(s0, u) THEN [s1.ctask[u] EXCEPT !.alone = FALSE]
             ELSE s1.ctask[u]]]

\* message-handler.ts handleCacheTranscript up to the first await of
\* cacheTranscript
HandleCacheTranscript ==
  /\ \E t \in CTasks : ~Running(Cur, t)
  /\ \E v \in Videos :
       Commit(calledWhile(Cur, cacheTranscript(Cur, FreeTask, v, CacheResult(v, "A")),
                          FreeTask))

\* message-handler.ts handleGetTranscript up to the await of
\* getCachedTranscript
HandleGetTranscript ==
  /\ \E t \in CTasks : ~Running(Cur, t)
  /\ \E v \in Videos :
       Commit(calledWhile(Cur, getCachedTranscript(Cur, FreeTask, v), FreeTask))

\* removeCacheEntry called whatever else is running
RemoveCacheEntryCalled ==
  /\ \E t \in CTasks : ~Running(Cur, t)
  /\ \E v \in Videos :
       Commit(calledWhile(Cur, removeCacheEntry(Cur, FreeTask, v), FreeTask))

\* clearCache called whatever else is running
ClearCacheCalled ==
  /\ \E t \in CTasks : ~Running(Cur, t)
  /\ Commit(calledWhile(Cur, clearCache(Cur, FreeTask), FreeTask))

WorkerNext ==
  \/ HandleCacheTranscript
  \/ HandleGetTranscript
  \/ RemoveCacheEntryCalled
  \/ ClearCacheCalled
  \/ StorageDone

WorkerSpec == CacheInit /\ [][WorkerNext]_vars

\* no running cache operation works on videoId v
OtherVideo(v) == \A t \in CTasks : Running(Cur, t) => ctask[t].v # v

\* handleCacheTranscript for a videoId no running operation works on
CacheTranscriptOtherVideo ==
  /\ \E t \in CTasks : ~Running(Cur, t)
  /\ \E v \in Videos :
       /\ OtherVideo(v)
       /\ Commit(calledWhile(Cur, cacheTranscript(Cur, FreeTask, v, CacheResult(v, "A")),
                             FreeTask))

\* removeCacheEntry for a videoId no running operation works on
RemoveCacheEntryOtherVideo ==
  /\ \E t \in CTasks : ~Running(Cur, t)
  /\ \E v \in Videos :
       /\ OtherVideo(v)
       /\ Commit(calledWhile(Cur, removeCacheEntry(Cur, FreeTask, v), FreeTask))

\* writes and removes that overlap only when their videoIds differ
DisjointNext ==
  \/ CacheTranscriptOtherVideo
  \/ RemoveCacheEntryOtherVideo
  \/ StorageDone

DisjointSpec == CacheInit /\ [][DisjointNext]_vars

\* the orders in which an object can list two keys
Orders == {<<"v1", "v2">>, <<"v2", "v1">>}

\* service-worker.ts: setupCacheCleanup at startup and the cache-cleanup
\* alarm call cleanupExpiredEntries, whatever else is running
CleanupAlarm ==
  /\ \E t \in CTasks : ~Running(Cur, t)
  /\ \E order \in Orders :
       Commit(calledWhile(Cur, cleanupExpiredEntries(Cur, FreeTask, order), FreeTask))

\* the instants the clock is observed at by the service worker: the start, a
\* millisecond later, and a millisecond after the Tier A window of the start
SweepInstants == {0, 1, TTL_A + 1}

SweepTick ==
  \E t \in SweepInstants :
    /\ t > now
    /\ Commit([Cur EXCEPT !.now = t])

\* the service worker as it runs: its two cache message handlers, its
\* periodic sweep, and the passing of time
SweepNext ==
  \/ HandleCacheTranscript
  \/ HandleGetTranscript
  \/ CleanupAlarm
  \/ StorageDone
  \/ SweepTick

SweepSpec == CacheInit /\ [][SweepNext]_vars

\* ------------------------------------------------------- navigation observer
\* URL changes of one page visit
MaxNavs == 3

\* ytNavigateHandler timers that can be pending together
MaxDelayed == 2

\* checkVideoChange(): the 50 ms timer is cleared if set, and set
checkVideoChange(s) == [s EXCEPT !.observer.checkVideoChangeTimer = TRUE]

\* the callback of the 50 ms timer
checkVideoChangeFired(s) ==
  LET o == s.observer
      newVideoId == o.href
      s1 == [s EXCEPT !.observer.checkVideoChangeTimer = FALSE]
  IN IF newVideoId # o.currentVideoId
     THEN [s1 EXCEPT !.observer.currentVideoId = newVideoId,
                     !.observer.calls = @ + 1,
                     !.observer.lastCall = newVideoId]
     ELSE s1

\* the cleanup function: the 50 ms timer is cleared, history is restored,
\* the listeners are removed and the observers disconnected; the timers of
\* ytNavigateHandler are not tracked and stay
navigationCleanup(s) ==
  [s EXCEPT !.observer.st = "cleaned", !.observer.checkVideoChangeTimer = FALSE]

\* the URL of the page becomes that of video v
urlChanged(s, v) == [s EXCEPT !.observer.href = v, !.observer.navs = @ + 1]

CreateNavigationObserver ==
  /\ observer.st = "none"
  /\ \E player \in BOOLEAN, shorts \in BOOLEAN :
       Commit([Cur EXCEPT !.observer.st = "watching",
                          !.observer.currentVideoId = observer.href,
                          !.observer.player = player,
                          !.observer.shorts = shorts])

\* the page calls history.pushState or history.replaceState (the wrapper
\* installed by the observer, or the original once it is restored), or a
\* back / forward navigation changes the URL and dispatches popstate
HistoryChanged ==
  /\ observer.navs < MaxNavs
  /\ \E v \in Videos \cup {NoVideo} :
       /\ v # observer.href
       /\ IF observer.st = "watching"
          THEN Commit(checkVideoChange(urlChanged(Cur, v)))
          ELSE Commit(urlChanged(Cur, v))

\* yt-navigate-finish is dispatched: ytNavigateHandler
YtNavigateFinish ==
  /\ observer.st = "watching"
  /\ observer.delayed < MaxDelayed
  /\ Commit([Cur EXCEPT !.observer.delayed = @ + 1])

\* a timer set by ytNavigateHandler fires: checkVideoChange()
DelayedCheckFired ==
  /\ observer.delayed > 0
  /\ Commit(checkVideoChange([Cur EXCEPT !.observer.delayed = @ - 1]))

\* the video-id attribute of the observed player changes
PlayerMutated ==
  /\ observer.st = "watching" /\ observer.player
  /\ Commit(checkVideoChange(Cur))

\* the observed Shorts container changes
ShortsMutated ==
  /\ observer.st = "watching" /\ observer.shorts
  /\ Commit(checkVideoChange(Cur))

\* the 50 ms timer fires
CheckVideoChangeFired ==
  /\ observer.checkVideoChangeTimer
  /\ Commit(checkVideoChangeFired(Cur))

\* the function returned by createNavigationObserver is called
NavigationCleanup ==
  /\ observer.st = "watching"
  /\ Commit(navigationCleanup(Cur))

\* one observer on one page
ObserverNext ==
  \/ CreateNavigationObserver
  \/ HistoryChanged
  \/ YtNavigateFinish
  \/ DelayedCheckFired
  \/ PlayerMutated
  \/ ShortsMutated
  \/ CheckVideoChangeFired
  \/ NavigationCleanup

ObserverSpec == CacheInit /\ [][ObserverNext]_vars

\* ---------------------------------------------------- Adapter C, called alone
\* backendUrl arguments: empty, not a URL, a URL of another protocol, and
\* http(s) URLs
AdapterUrls == {"", "not-a-url", "ftp://h", "http://h", "https://h"}

\* what a fetch can do, the AbortSignal timeout told apart from other
\* rejections, and a 2xx response with an unreadable body
AdapterResponses == Responses \cup {"timeout", "badjson"}

\* `await fetch(...)` inside the try of an Adapter C operation
adapterFetch(s) == [s EXCEPT !.adapter.pc = "fetch", !.adapter.fetches = @ + 1]

\* submitForTranscription / checkTranscriptionStatus up to the fetch, or to
\* the return for a URL that is not valid
adapterCall(s, op, v, backendUrl) ==
  LET s1 == [s EXCEPT !.adapter = [NoAdapterCall EXCEPT !.op = op, !.v = v,
                                                        !.url = backendUrl]]
  IN IF ~isValidBackendUrl(backendUrl)
     THEN [s1 EXCEPT !.adapter.pc = "returned",
                     !.adapter.result =
                        IF op = "submitForTranscription"
                        THEN submitForTranscription(v, backendUrl, "-")
                        ELSE checkTranscriptionStatus(v, backendUrl, "-")]
     ELSE adapterFetch(s1)

\* cancelTranscription up to its fetch: the URL is not looked at
adapterCancelCall(s, v, backendUrl) ==
  adapterFetch([s EXCEPT !.adapter = [NoAdapterCall EXCEPT !.op = "cancelTranscription",
                                                           !.v = v, !.url = backendUrl]])

\* the fetch settles and the operation returns
adapterResume(s, resp) ==
  LET a == s.adapter
      s1 == [s EXCEPT !.adapter.pc = "returned", !.adapter.resp = resp]
  IN CASE a.op = "submitForTranscription" ->
            [s1 EXCEPT !.adapter.result = submitForTranscription(a.v, a.url, resp)]
       [] a.op = "checkTranscriptionStatus" ->
            [s1 EXCEPT !.adapter.result = checkTranscriptionStatus(a.v, a.url, resp)]
       [] OTHER ->
            [s1 EXCEPT !.adapter.ok = cancelTranscription(a.v, a.url, resp)]

CallSubmitForTranscription ==
  /\ adapter.pc # "fetch"
  /\ \E v \in Videos, u \in AdapterUrls :
       Commit(adapterCall(Cur, "submitForTranscription", v, u))

CallCheckTranscriptionStatus ==
  /\ adapter.pc # "fetch"
  /\ \E v \in Videos, u \in AdapterUrls :
       Commit(adapterCall(Cur, "checkTranscriptionStatus", v, u))

CallCancelTranscription ==
  /\ adapter.pc # "fetch"
  /\ \E v \in Videos, u \in AdapterUrls : Commit(adapterCancelCall(Cur, v, u))

AdapterFetchSettled ==
  /\ adapter.pc = "fetch"
  /\ \E resp \in AdapterResponses : Commit(adapterResume(Cur, resp))

\* what extractDescription returns: nothing, an empty text, a text
PageDescriptions == {"null", "", "D"}

\* the most chapters a page has
MaxChapters == 2

\* getTierBFallback from call to return (it awaits nothing)
adapterFallbackCall(s, v, description, nChapters, threw) ==
  [s EXCEPT !.adapter =
     [NoAdapterCall EXCEPT !.op = "getTierBFallback", !.v = v, !.pc = "returned",
                           !.description = description, !.chapters = nChapters,
                           !.threw = threw,
                           !.result = IF threw THEN TierBCatch(v)
                                      ELSE getTierBFallback(v, description, nChapters)]]

CallGetTierBFallback ==
  /\ adapter.pc # "fetch"
  /\ \E v \in Videos, d \in PageDescriptions, n \in 0..MaxChapters, threw \in BOOLEAN :
       Commit(adapterFallbackCall(Cur, v, d, n, threw))

\* the adapters driven through their exported operations, one call at a time
AdapterNext ==
  \/ CallSubmitForTranscription
  \/ CallCheckTranscriptionStatus
  \/ CallCancelTranscription
  \/ CallGetTierBFallback
  \/ AdapterFetchSettled

AdapterSpec == CacheInit /\ [][AdapterNext]_vars

\* ------------------------------------------------------------ vocabulary
Returned(r) == pc[r] \in {"returned", "done"}
TierAYielded(r) == inputs[r].a \notin {"-", "none"}
TierAAbsent(r) == inputs[r].a = "none"
TierBInvoked(r) == inputs[r].description # "-"
TierBAbsent(r) == inputs[r].description = "" /\ inputs[r].chapters = 0
TierBYielded(r) == TierBInvoked(r) /\ ~TierBAbsent(r)
NoBackendUse(r) ==
  /\ netCalls[r] = 0 /\ awaited[r] = 0 /\ bg[r] = "none"
  /\ loop[r].st = "none" /\ \A v \in Videos : activePolls[v] # r
LiveLoop(r) == loop[r].st \in {"check", "timer"} /\ ~loop[r].cancelled


\* ------------------------------------------------------------------ claims
\* C5 (tier precedence): whenever Adapter A yields a result for a call, the
\* call has returned exactly that result, Adapter B was not invoked, no
\* backend operation was called or awaited, no background flow or poll was
\* started, no handle is registered for the call, and onUpdate was not invoked.
C5_TierPrecedence ==
  \A r \in Req :
    TierAYielded(r) =>
      /\ Returned(r)
      /\ ret[r] = getTierATranscript(vid[r], inputs[r].a)
      /\ ~TierBInvoked(r)
      /\ NoBackendUse(r)
      /\ nUpd[r] = 0

\* a call with a backend configured and a callback supplied returned Tier A
C5_Witness ==
  \E r \in Req :
    /\ pc[r] = "done" /\ ret[r].tier = "A" /\ TierAYielded(r)
    /\ isValidBackendUrl(url[r]) /\ hasCb[r]

\* C6 (never-empty): when Adapter A and Adapter B are absent and no backend
\* URL is configured, the call has returned the synthesized Tier B result
\* (fallback-partial, isPartial, the configure-a-backend description), and it
\* made no backend call and registered no poll.
C6_NeverEmpty ==
  \A r \in Req :
    (TierAAbsent(r) /\ TierBInvoked(r) /\ TierBAbsent(r) /\ ~Truthy(url[r])) =>
      /\ Returned(r)
      /\ ret[r].tier = "B"
      /\ ret[r].source = "fallback-partial"
      /\ ret[r].isPartial
      /\ ret[r].description = NoBackendMessage
      /\ NoBackendUse(r)
      /\ nUpd[r] = 0

C6_Witness ==
  \E r \in Req :
    /\ pc[r] = "done" /\ TierAAbsent(r) /\ TierBInvoked(r) /\ TierBAbsent(r)
    /\ ~Truthy(url[r]) /\ ret[r] = EmptyTierB(vid[r])

\* C7: getTranscript never rejects: no call ends rejected, every returned
\* value is a Tier A, B or C result, and a backend failure shows only as a
\* Tier C result of status error.
C7_NeverRejects ==
  \A r \in Req :
    /\ pc[r] \notin {"rejected", "failed"}
    /\ Returned(r) => ret[r].tier \in {"A", "B", "C"}
    /\ (Returned(r) /\ ret[r].error # "-") =>
         (ret[r].tier = "C" /\ ret[r].status = "error")

\* calls have returned after a rejected fetch and with an invalid URL
C7_Witness ==
  /\ \E r \in Req : pc[r] = "done" /\ ret[r].error = "Failed to fetch"
  /\ \E r \in Req : pc[r] = "done" /\ ret[r].error = "Invalid backend URL"

\* C9: when Adapter A is absent and Adapter B yields a result, the call has
\* returned that result unchanged having awaited no backend call, and its
\* background Tier C flow was started exactly when a backend URL is configured.
C9_TierBImmediate ==
  \A r \in Req :
    (TierAAbsent(r) /\ TierBYielded(r)) =>
      /\ Returned(r)
      /\ ret[r] = getTierBFallback(vid[r], inputs[r].description, inputs[r].chapters)
      /\ awaited[r] = 0
      /\ bg[r] # "none" <=> Truthy(url[r])
      /\ bg[r] = "none" => (loop[r].st = "none" /\ netCalls[r] = 0)

\* the caller holds the Tier B result while the background checkStatus is
\* still unresolved
C9_Witness ==
  \E r \in Req :
    /\ pc[r] = "done" /\ ret[r].tier = "B" /\ TierBYielded(r)
    /\ bg[r] = "check" /\ netCalls[r] = 1

\* C10 as stated: getTranscript awaits at most one backend round-trip.
C10_AtMostOneRoundTrip == \A r \in Req : awaited[r] <= 1

\* C10 amended: getTranscript awaits at most two backend calls (one
\* checkStatus and, when that reported neither complete nor processing, one
\* submit), and its poll loop is not started before the step in which it
\* returns, so it never waits for a terminal status.
C10_AtMostTwoRoundTrips ==
  \A r \in Req :
    /\ awaited[r] <= 2
    /\ pc[r] \in {"awaitA", "awaitB", "awaitCheck", "awaitSubmit"} =>
         (loop[r].st = "none" /\ nUpd[r] = 0)
    /\ pc[r] = "awaitCheck" => awaited[r] = 0
    /\ pc[r] = "awaitSubmit" => awaited[r] = 1

\* a call returned a processing submission after awaiting checkStatus and submit
C10_Witness ==
  \E r \in Req :
    /\ pc[r] = "done" /\ awaited[r] = 2 /\ ret[r].status = "processing"
    /\ netCalls[r] >= 2


\* C1 as stated (cancellation silences updates): once cancelActivePoll(v) has
\* returned, onUpdate is never again invoked by a retrieval of v that was
\* started before the cancel.
C1_CancelSilencesUpdates ==
  [][\A r \in Req : cancelSeen[r] => nUpd'[r] = nUpd[r]]_vars

\* C2 (at most one live poll per video): at most one uncancelled loop runs per
\* videoId and it is the one registered in activePolls; a loop superseded by a
\* newer pollForCompletion never invokes onUpdate again, its in-flight status
\* check included.
C2_AtMostOneLivePoll ==
  /\ [](\A v \in Videos :
          /\ Cardinality({r \in Req : vid[r] = v /\ LiveLoop(r)}) <= 1
          /\ activePolls[v] # 0 => (vid[activePolls[v]] = v /\ LiveLoop(activePolls[v])))
  /\ [](\A r \in Req : LiveLoop(r) => activePolls[vid[r]] = r)
  /\ [][\A r \in Req : superseded[r] => nUpd'[r] = nUpd[r]]_vars

\* a loop was superseded while its first status check was in flight, the check
\* has since resolved, and the newer loop is still the registered one
C2_Witness ==
  \E r1 \in Req, r2 \in Req :
    /\ r1 # r2 /\ vid[r1] = vid[r2]
    /\ superseded[r1] /\ loop[r1].st = "stopped" /\ loop[r1].attempts = 0
    /\ isValidBackendUrl(url[r1])
    /\ activePolls[vid[r2]] = r2 /\ LiveLoop(r2)

\* C3 as stated (stale results never overwrite the current view): the
\* transcript held as current was retrieved for the current video id.
C3_CurrentTranscriptIsCurrent ==
  currentTranscript # NoResult => currentTranscript.vid = currentVideoId

\* C4 as stated: when the content script starts getTranscript for a video, no
\* poll handle of another video is registered (the previous video's poll was
\* cancelled on the video change).
C4_CancelOnVideoChange ==
  [][\A r \in Req :
       (pc[r] = "navWait" /\ pc'[r] = "awaitA") =>
         \A v \in Videos \ {vid[r]} : activePolls'[v] = 0]_vars

\* C8 (fallback with background upgrade): with Adapter A absent, description
\* D, a valid backend URL and a callback, the call returns the Tier B result
\* carrying D; a complete status reported to its background flow or to its
\* uncancelled poll loop is delivered through onUpdate; and the background
\* upgrade always comes to an end.
UpgradeScenario(r) ==
  /\ TierAAbsent(r) /\ inputs[r].description = "D"
  /\ isValidBackendUrl(url[r]) /\ hasCb[r]

UpgradeSettled(r) == bg[r] = "done" /\ loop[r].st \in {"none", "stopped"}

CompleteDelivered(r) == lastUpd[r] = TierCResult(vid[r], "complete", "-")

C8_BackgroundUpgrade ==
  /\ [](\A r \in Req :
          UpgradeScenario(r) =>
            /\ Returned(r)
            /\ ret[r].tier = "B" /\ ret[r].description = "D"
            /\ (sawComplete[r] /\ ~loop[r].cancelled) => CompleteDelivered(r))
  /\ \A r \in Req :
       UpgradeScenario(r) ~>
         (UpgradeSettled(r) /\ ((sawComplete[r] /\ ~loop[r].cancelled) => CompleteDelivered(r)))

\* the backend reported processing first, the loop polled, and the completion
\* reached the callback after the Tier B result had been returned
C8_Witness ==
  \E r \in Req :
    /\ UpgradeScenario(r) /\ pc[r] = "done" /\ ret[r].tier = "B"
    /\ loop[r].attempts >= 1 /\ ~loop[r].cancelled /\ loop[r].st = "stopped"
    /\ CompleteDelivered(r) /\ nUpd[r] >= 2


\* C11 (timeout terminality): a poll loop that is never cancelled issues its
\* status checks one per attempt and at most MaxAttempts of them; when every
\* one of them reported processing it ends by the timeout, having issued
\* exactly MaxAttempts checks, with one onUpdate per check and one more for
\* the timeout error; after the timeout it schedules nothing, invokes
\* onUpdate no more and holds no registry entry; and the loop always ends.
TimedOut(r) == lastUpd[r] = TimeoutResult(vid[r])

C11_TimeoutTerminality ==
  /\ [](\A r \in Req :
          ~loop[r].cancelled =>
            /\ loop[r].checks <= MaxAttempts
            /\ loop[r].st = "check" => loop[r].checks = loop[r].attempts + 1
            /\ loop[r].st = "timer" => loop[r].checks = loop[r].attempts
            /\ (loop[r].st = "stopped" /\ loop[r].checks = loop[r].attempts)
                  => TimedOut(r)
            /\ TimedOut(r) =>
                  /\ loop[r].st = "stopped"
                  /\ loop[r].checks = MaxAttempts
                  /\ loop[r].attempts = MaxAttempts
                  /\ nUpd[r] = MaxAttempts + 1
                  /\ activePolls[vid[r]] # r)
  /\ [][\A r \in Req :
          /\ TimedOut(r) => (nUpd'[r] = nUpd[r] /\ loop'[r] = loop[r])
          /\ (~TimedOut(r) /\ TimedOut(r)') => nUpd'[r] = nUpd[r] + 1]_vars
  /\ \A r \in Req :
       LiveLoop(r) ~> (loop[r].cancelled \/ loop[r].st = "stopped")

\* a loop saw processing on each of its MaxAttempts checks and timed out
C11_Witness ==
  \E r \in Req :
    /\ TimedOut(r) /\ ~loop[r].cancelled /\ loop[r].st = "stopped"
    /\ loop[r].checks = MaxAttempts /\ nUpd[r] = MaxAttempts + 1

\* C12 as stated: whenever onUpdate has been invoked for a call, the caller
\* has already received the call's initial result (its await of getTranscript
\* has continued), and the result passed to onUpdate was retrieved for the
\* call's videoId.
C12_UpdatesAfterInitialResult ==
  \A r \in Req :
    nUpd[r] > 0 => (pc[r] = "done" /\ lastUpd[r].vid = vid[r])

\* C13 (ordered delivery within one poll loop): a status check is issued only
\* when the loop has none in flight; the resolution of a check invokes
\* onUpdate exactly once, with that check's result, when the loop is not
\* cancelled, and not at all when it is; the loop invokes onUpdate at no other
\* moment except for its timeout; so the updates of an uncancelled loop are as
\* many as its resolved checks, in the order the checks were issued.
CheckInFlight(r) == loop[r].st = "check"
ChecksResolved(r) == loop[r].checks - (IF CheckInFlight(r) THEN 1 ELSE 0)

WindowOf(tier) ==
  CASE tier = "A" -> 86400000
    [] tier = "B" -> 3600000
    [] tier = "C" -> 604800000
    [] OTHER -> 86400000

Stored(v) == v \in DOMAIN entries
Indexed(v) == v \in DOMAIN index
Finished(t, op) == ctask[t].op = op /\ ctask[t].pc = "done"

\* getCachedTranscript of task t continues after its storage read
ReadDecides(t) ==
  /\ ctask[t].op = "getCachedTranscript"
  /\ ctask[t].pc = "get" /\ ctask'[t].pc # "get"

\* C14 (TTL correctness on read): when getCachedTranscript(v) finds an entry of
\* tier A, B or C at a time now <= cachedAt + window (24h, 1h, 7d) it returns
\* the stored result and changes neither the entry nor the index; at a time
\* now > cachedAt + window it goes on to remove the entry, and it returns
\* absent with the entry and the index record of v gone.
C14_TTLOnRead ==
  /\ [][\A t \in CTasks :
          LET v == ctask[t].v IN
          (ReadDecides(t) /\ Stored(v) /\ entries[v].result.tier \in {"A", "B", "C"}) =>
            IF now <= entries[v].timestamp + WindowOf(entries[v].result.tier)
            THEN /\ ctask'[t].pc = "done"
                 /\ ctask'[t].ret = entries[v].result
                 /\ entries' = entries /\ index' = index
            ELSE /\ ctask'[t].pc = "remove"
                 /\ ctask'[t].inner = "removeCacheEntry"]_vars
  /\ [](\A t \in CTasks :
          Finished(t, "getCachedTranscript") =>
            IF ctask[t].ret = NoResult
            THEN ~Stored(ctask[t].v) /\ ~Indexed(ctask[t].v)
            ELSE Stored(ctask[t].v) /\ entries[ctask[t].v].result = ctask[t].ret)

\* a Tier B entry written at time 0 was read in the last millisecond of its
\* hour and returned, and is still stored
C14_Witness ==
  \E t \in CTasks :
    /\ Finished(t, "getCachedTranscript") /\ ctask[t].ret.tier = "B"
    /\ now = 3600000
    /\ Stored(ctask[t].v) /\ entries[ctask[t].v].timestamp = 0

\* C15 as stated: cacheTranscript(videoId, result) takes its timestamp from
\* the clock at the call, and once it has completed an entry for videoId is
\* stored that carries videoId, the result, and a ttl of 24h for tier A, 1h
\* for tier B, 7d for tier C and 24h for every other tier, and the index
\* holds an expiry for videoId.
C15_WriteStoresEntry ==
  /\ [][\A t \in CTasks :
          (ctask'[t].op = "cacheTranscript" /\ ctask'[t].pc = "set"
             /\ ctask[t].pc # "set") =>
            ctask'[t].entry.timestamp = now]_vars
  /\ [](\A t \in CTasks :
          Finished(t, "cacheTranscript") =>
            LET v == ctask[t].v IN
            /\ Stored(v) /\ Indexed(v)
            /\ entries[v].videoId = v
            /\ entries[v].result.vid = v
            /\ entries[v].ttl = WindowOf(entries[v].result.tier))

\* the storage operation task t awaits completes in this step
Completes(t, call) == ctask[t].pc = call /\ ctask'[t].pc # call

\* the entry of v as a value (absent: the empty entry)
EntryOf(m, v) == IF v \in DOMAIN m THEN m[v] ELSE CacheEntry(NoVideo, NoResult, 0, 0)

\* C16 (read returns the latest write): the entry of v is replaced as a whole
\* (result, timestamp, ttl) when a cacheTranscript(v, r) stores its entry,
\* and it changes at no other step except the removal by removeCacheEntry(v),
\* by a read of v that found it stale, or by clearCache; a read of v that
\* finds the entry within its ttl returns the entry's result, and a read of a
\* videoId with no entry returns absent.
C16_ReadReturnsLatestWrite ==
  [][\A t \in CTasks :
       LET v == ctask[t].v IN
       /\ (ctask[t].op = "cacheTranscript" /\ Completes(t, "set")) =>
            (Stored(v)' /\ entries'[v] = ctask[t].entry
               /\ entries'[v].result.vid = v)
       /\ \A u \in Videos :
            EntryOf(entries', u) # EntryOf(entries, u) =>
              \E w \in CTasks :
                \/ ctask[w].v = u /\ Completes(w, "set")
                \/ ctask[w].v = u /\ Completes(w, "remove")
                \/ ctask[w].op = "clearCache" /\ Completes(w, "removeKeys")
       /\ (ReadDecides(t) /\ Stored(v) /\ entries[v].ttl # NonNumeric
              /\ now <= entries[v].timestamp + entries[v].ttl) =>
            (ctask'[t].pc = "done" /\ ctask'[t].ret = entries[v].result)
       /\ (ReadDecides(t) /\ ~Stored(v)) =>
            (ctask'[t].pc = "done" /\ ctask'[t].ret = NoResult)]_vars

\* a second cacheTranscript for a videoId has just replaced the entry of the
\* first, whose index record is still the old one
C16_Witness ==
  \E t \in CTasks :
    LET v == ctask[t].v IN
    /\ ctask[t].op = "cacheTranscript" /\ ctask[t].pc = "indexGet"
    /\ Stored(v) /\ entries[v] = ctask[t].entry /\ entries[v].timestamp > 0
    /\ Indexed(v) /\ index[v] # ctask[t].expiry

\* C17 as stated: every cache write of the content script's retrieval flow
\* carries a resolved result: Tier A, Tier B, or Tier C with status complete
\* or error, never Tier C with status processing.
C17_OnlyResolvedResultsCached ==
  \A m \in cacheWrites :
    \/ m.result.tier \in {"A", "B"}
    \/ m.result.tier = "C" /\ m.result.status \in {"complete", "error"}

\* C18 as stated: a retrieval of the content script for a videoId that has a
\* fresh cache entry invokes neither Adapter A nor Adapter B nor the backend,
\* and what it hands to the view is the cached result.
FreshEntry(v) == Stored(v) /\ ~Expired(entries[v], now)

C18_CacheConsultedFirst ==
  \A r \in Req :
    (caller[r] = "content" /\ pc[r] \notin {"unused", "navWait"}
       /\ vid[r] # NoVideo /\ FreshEntry(vid[r])) =>
      /\ inputs[r] = NoInputs
      /\ netCalls[r] = 0
      /\ pc[r] = "done" => ret[r] = entries[vid[r]].result

\* the index record of v as a value (0: no record)
RecordOf(m, v) == IF v \in DOMAIN m THEN m[v] ELSE 0

\* C19 (removeCacheEntry and its frame): whatever operations ran before, a
\* removeCacheEntry(v) that no other cache operation overlaps changes the
\* entry and the index record of no other videoId in any of its steps, and
\* when it completes no entry and no index record of v is stored; a read of a
\* videoId that has no entry returns absent.
C19_RemoveFrame ==
  [][\A t \in CTasks :
       LET v == ctask[t].v IN
       /\ (ctask[t].op = "removeCacheEntry" /\ ctask[t].alone
              /\ ctask'[t] # ctask[t] /\ ctask'[t].op = "removeCacheEntry") =>
            /\ \A u \in Videos \ {v} :
                 /\ EntryOf(entries', u) = EntryOf(entries, u)
                 /\ RecordOf(index', u) = RecordOf(index, u)
            /\ Completes(t, "indexSet") => (~Stored(v)' /\ ~Indexed(v)')
       /\ (ReadDecides(t) /\ ~Stored(v)) =>
            (ctask'[t].pc = "done" /\ ctask'[t].ret = NoResult)]_vars

\* a removeCacheEntry(v1) running alone has removed v1's entry and is about
\* to rewrite the index, while v2's entry and index record are stored
C19_Witness ==
  \E t \in CTasks :
    /\ ctask[t].op = "removeCacheEntry" /\ ctask[t].v = "v1" /\ ctask[t].alone
    /\ ctask[t].pc = "indexSet"
    /\ ~Stored("v1") /\ Indexed("v1")
    /\ Stored("v2") /\ Indexed("v2")

\* C20 as stated: when a clearCache that no other cache operation overlapped
\* completes, whatever writes and removes came before it, no entry and no
\* index record is stored.
C20_ClearRemovesAll ==
  [][\A t \in CTasks :
       (ctask[t].op = "clearCache" /\ Completes(t, "removeKeys")
          /\ ctask[t].alone) =>
         (entries' = EmptyMap /\ index' = EmptyMap)]_vars

\* cleanupExpiredEntries of task t returns in this step
SweepEnds(t) ==
  /\ ctask[t].op = "cleanupExpiredEntries"
  /\ ctask[t].pc # "done" /\ ctask'[t].pc = "done"

\* the index read of the sweep is the step that ends it
EndsAtRead(t) == ctask[t].pc = "indexGet"

\* the expiry recorded for v in the index i0 has passed at time t0
ExpiryPassed(i0, t0, v) == v \in DOMAIN i0 /\ Gt(t0, i0[v])

\* C21 as stated: when a cleanupExpiredEntries that no other cache operation
\* overlapped returns, whatever ran before it, every videoId whose recorded
\* expiry had passed when the sweep read the clock has neither an entry nor
\* an index record, every other videoId has the entry and the index record
\* it had, and the value returned is the number of entries the sweep removed
\* (0, with nothing changed, when no expiry had passed).
C21_SweepRemovesExpired ==
  [][\A t \in CTasks :
       (SweepEnds(t) /\ ctask[t].alone) =>
         LET e0 == IF EndsAtRead(t) THEN entries ELSE ctask[t].seen
             i0 == IF EndsAtRead(t) THEN index ELSE ctask[t].sweepIndex
             t0 == IF EndsAtRead(t) THEN now ELSE ctask[t].sweepNow
             gone == {v \in Videos : ExpiryPassed(i0, t0, v)}
         IN /\ \A v \in gone : ~Stored(v)' /\ ~Indexed(v)'
            /\ \A v \in Videos \ gone :
                 /\ EntryOf(entries', v) = EntryOf(e0, v)
                 /\ RecordOf(index', v) = RecordOf(i0, v)
            /\ ctask'[t].removed = Cardinality({v \in gone : v \in DOMAIN e0})]_vars


\* ------------------------------------------------------- Adapter C claims
\* the backendUrl is a well-formed http(s) URL
WellFormedHttpUrl(u) == u \in {"http://h", "https://h"}

InvalidUrlResult(a) ==
  /\ a.result.tier = "C" /\ a.result.source = "server-transcription"
  /\ a.result.status = "error" /\ a.result.error = "Invalid backend URL"
  /\ a.result.transcript = "[]"

\* C22 (invalid backend URL): a submitForTranscription or
\* checkTranscriptionStatus called with a backendUrl that is not a well-formed
\* http(s) URL has returned, without having called fetch, a Tier C result of
\* status error with the message 'Invalid backend URL' and an empty transcript.
C22_InvalidUrlShortCircuits ==
  (adapter.op \in {"submitForTranscription", "checkTranscriptionStatus"}
     /\ ~WellFormedHttpUrl(adapter.url)) =>
    /\ adapter.pc = "returned"
    /\ adapter.fetches = 0
    /\ InvalidUrlResult(adapter)

\* checkTranscriptionStatus was called with a URL of another protocol
C22_Witness ==
  /\ adapter.op = "checkTranscriptionStatus" /\ adapter.url = "ftp://h"
  /\ adapter.pc = "returned" /\ InvalidUrlResult(adapter)

\* C23 as stated: whichever of the three Adapter C operations is called, fetch
\* is called only for a backendUrl that is a well-formed http(s) URL.
C23_AllValidateFirst ==
  adapter.fetches > 0 => WellFormedHttpUrl(adapter.url)

\* the message carried by the result of a failed fetch
FailureMessage(op, resp) ==
  CASE resp = "404" /\ op = "checkTranscriptionStatus" -> "Transcript not found"
    [] resp = "404" -> "Backend error: 404"
    [] resp = "500" -> "Backend error: 500"
    [] resp = "netfail" -> "Failed to fetch"
    [] resp = "timeout" -> "The operation was aborted due to timeout"
    [] resp = "badjson" -> "Unexpected end of JSON input"
    [] OTHER -> "-"

\* C24 (Adapter C never raises): a submitForTranscription or
\* checkTranscriptionStatus that has returned resolved to a Tier C result,
\* never to an exception; after a non-OK response, a rejected fetch or a
\* timeout the result has status error, an empty transcript and the
\* exception's message, and after a 404 checkTranscriptionStatus reports
\* 'Transcript not found'; an unreadable response body is such an exception.
C24_AdapterNeverRaises ==
  (adapter.op \in {"submitForTranscription", "checkTranscriptionStatus"}
     /\ adapter.pc = "returned") =>
    /\ adapter.result.tier = "C"
    /\ adapter.resp \in {"404", "500", "netfail", "timeout", "badjson"} =>
         /\ adapter.result.status = "error"
         /\ adapter.result.transcript = "[]"
         /\ adapter.result.error = FailureMessage(adapter.op, adapter.resp)

\* submitForTranscription returned after its fetch timed out
C24_Witness ==
  /\ adapter.op = "submitForTranscription" /\ adapter.pc = "returned"
  /\ adapter.resp = "timeout" /\ adapter.fetches = 1
  /\ adapter.result.status = "error"


\* ------------------------------------------------------- Tier C path claims
\* Adapter A and Adapter B found nothing and a backend URL is configured
SyncTierC(r) ==
  TierAAbsent(r) /\ TierBInvoked(r) /\ TierBAbsent(r) /\ Truthy(url[r])

PollStarted(r) == loop[r].st # "none"

\* C25 (synchronous Tier C path): with Adapter A and B absent and a backend
\* configured, getTranscript awaits checkStatus first; when that is complete
\* it has returned that result with no submit and no poll; when it is
\* processing it has returned the checkStatus result with no submit, and the
\* poll was started iff onUpdate was supplied; otherwise it calls submit once,
\* starts no poll before the submit resolves, and has then returned the
\* submission result with the poll started iff onUpdate was supplied; no
\* background flow is started on this path.
C25_SynchronousTierC ==
  \A r \in Req :
    SyncTierC(r) =>
      /\ pc[r] \in {"awaitCheck", "awaitSubmit", "returned", "done"}
      /\ bg[r] = "none"
      /\ pc[r] = "awaitCheck" =>
            (inputs[r].check = "-" /\ awaited[r] = 0 /\ ~PollStarted(r))
      /\ pc[r] # "awaitCheck" => inputs[r].check # "-"
      /\ inputs[r].check = "complete" =>
            /\ Returned(r) /\ ret[r] = TierCResult(vid[r], "complete", "-")
            /\ awaited[r] = 1 /\ inputs[r].submit = NoResult
            /\ ~PollStarted(r) /\ activePolls[vid[r]] # r
      /\ inputs[r].check = "processing" =>
            /\ Returned(r) /\ ret[r] = TierCResult(vid[r], "processing", "-")
            /\ awaited[r] = 1 /\ inputs[r].submit = NoResult
            /\ PollStarted(r) <=> hasCb[r]
      /\ inputs[r].check \notin {"-", "complete", "processing"} =>
            IF pc[r] = "awaitSubmit"
            THEN awaited[r] = 1 /\ inputs[r].submit = NoResult /\ ~PollStarted(r)
            ELSE /\ Returned(r) /\ awaited[r] = 2
                 /\ inputs[r].submit.tier = "C" /\ ret[r] = inputs[r].submit
                 /\ PollStarted(r) <=> hasCb[r]

\* one call returned the processing status of its checkStatus without a
\* callback and started no poll; another, told 'not found', submitted and
\* returned the processing submission with its poll running
C25_Witness ==
  \E r1 \in Req, r2 \in Req :
    /\ SyncTierC(r1) /\ pc[r1] = "done" /\ inputs[r1].check = "processing"
    /\ ~hasCb[r1] /\ ~PollStarted(r1)
    /\ SyncTierC(r2) /\ pc[r2] = "done" /\ inputs[r2].check = "error"
    /\ ret[r2].status = "processing" /\ awaited[r2] = 2 /\ LiveLoop(r2)

\* C26 (background Tier C flow): the flow started after a Tier B return awaits
\* checkStatus first; when that is complete, onUpdate (if supplied) has been
\* invoked exactly once, with that result, no submit was made and no poll
\* was started or registered; when it is processing no submit is made;
\* otherwise submit is called exactly once and no poll is started before it
\* resolves; in the last two cases the poll is started iff onUpdate was
\* supplied.
C26_BackgroundTierC ==
  \A r \in Req :
    bg[r] # "none" =>
      /\ ret[r].tier = "B"
      /\ bg[r] = "check" =>
            /\ inputs[r].bgCheck = "-" /\ inputs[r].bgSubmits = 0
            /\ ~PollStarted(r) /\ nUpd[r] = 0
      /\ bg[r] # "check" => inputs[r].bgCheck # "-"
      /\ inputs[r].bgCheck = "complete" =>
            /\ bg[r] = "done" /\ inputs[r].bgSubmits = 0
            /\ ~PollStarted(r) /\ activePolls[vid[r]] # r
            /\ nUpd[r] = IF hasCb[r] THEN 1 ELSE 0
            /\ hasCb[r] => lastUpd[r] = TierCResult(vid[r], "complete", "-")
      /\ inputs[r].bgCheck = "processing" =>
            /\ bg[r] = "done" /\ inputs[r].bgSubmits = 0
            /\ PollStarted(r) <=> hasCb[r]
      /\ inputs[r].bgCheck \notin {"-", "complete", "processing"} =>
            /\ inputs[r].bgSubmits = 1
            /\ IF bg[r] = "submit"
               THEN ~PollStarted(r) /\ nUpd[r] = 0
               ELSE bg[r] = "done" /\ (PollStarted(r) <=> hasCb[r])

\* a background flow delivered the complete status of its first check and
\* started no poll; another submitted after 'not found' and is polling
C26_Witness ==
  \E r1 \in Req, r2 \in Req :
    /\ bg[r1] = "done" /\ inputs[r1].bgCheck = "complete" /\ hasCb[r1]
    /\ nUpd[r1] = 1 /\ ~PollStarted(r1)
    /\ bg[r2] = "done" /\ inputs[r2].bgCheck = "error"
    /\ inputs[r2].bgSubmits = 1 /\ LiveLoop(r2)


\* ------------------------------------------------------- poll loop claims
Terminal(result) == result.tier = "C" /\ result.status \in {"complete", "error"}

\* the status check the loop of call r has in flight resolves in this step
CheckResolves(r) == CheckInFlight(r) /\ ~CheckInFlight(r)'

CancelStep(v) == \E r \in Req : vid[r] = v /\ cancelSeen'[r] /\ ~cancelSeen[r]

\* C28 (cancelActivePoll and its frame): cancelActivePoll(v) changes nothing
\* when v has no handle; when it has one, the loop that registered it is
\* cancelled with no timer pending and v has no handle; in both cases the
\* handle of every other videoId and every other loop are unchanged and no
\* callback is invoked; a loop is only ever cancelled by a cancelActivePoll
\* of its own videoId or by a newer poll of its own videoId; and a loop that
\* is not cancelled delivers the result of each check that resolves.
C28_CancelFrame ==
  /\ [][\A v \in Videos :
          CancelStep(v) =>
            /\ IF activePolls[v] = 0
               THEN loop' = loop /\ activePolls' = activePolls
               ELSE /\ loop'[activePolls[v]].cancelled
                    /\ loop'[activePolls[v]].st # "timer"
                    /\ activePolls'[v] = 0
            /\ \A u \in Videos \ {v} : activePolls'[u] = activePolls[u]
            /\ \A r \in Req : (vid[r] # v \/ activePolls[v] # r) => loop'[r] = loop[r]
            /\ nUpd' = nUpd /\ micro' = micro /\ pc' = pc /\ bg' = bg]_vars
  /\ [][\A r \in Req :
          (CheckResolves(r) /\ ~loop[r].cancelled) => nUpd'[r] = nUpd[r] + 1]_vars
  /\ [](\A r \in Req : loop[r].cancelled => (cancelSeen[r] \/ superseded[r]))

\* the poll of one video was cancelled by cancelActivePoll while the poll of
\* the other video, started before the cancel, is still registered and running
C28_Witness ==
  \E r1 \in Req, r2 \in Req :
    /\ vid[r1] # vid[r2] /\ r2 < r1
    /\ cancelSeen[r1] /\ loop[r1].cancelled /\ activePolls[vid[r1]] = 0
    /\ ~cancelSeen[r2] /\ LiveLoop(r2) /\ activePolls[vid[r2]] = r2

\* C29 (a cancelled loop stops silently): from the moment a loop is cancelled
\* (by cancelActivePoll or by a newer poll) it invokes no callback and issues
\* no status check; the only thing it still does is to stop when its
\* in-flight check resolves, and that step leaves the registry as it is, the
\* handle of a newer loop for the same videoId included.
C29_CancelledLoopSilent ==
  [][\A r \in Req :
       loop[r].cancelled =>
         /\ nUpd'[r] = nUpd[r] /\ lastUpd'[r] = lastUpd[r]
         /\ loop'[r].checks = loop[r].checks
         /\ loop'[r] # loop[r] =>
              /\ CheckInFlight(r) /\ loop'[r].st = "stopped"
              /\ activePolls' = activePolls]_vars

\* a loop was cancelled by cancelActivePoll while its second check was in
\* flight; a newer call registered a poll for the same videoId; the check has
\* since resolved, nothing was delivered and the newer handle is in place
C29_Witness ==
  \E r1 \in Req, r2 \in Req :
    /\ r1 # r2 /\ vid[r1] = vid[r2]
    /\ cancelSeen[r1] /\ ~superseded[r1] /\ loop[r1].cancelled
    /\ loop[r1].st = "stopped" /\ loop[r1].checks = 2 /\ nUpd[r1] = 1
    /\ isValidBackendUrl(url[r1])
    /\ activePolls[vid[r2]] = r2 /\ LiveLoop(r2)

\* the catch block of the loop of call r is entered in this step
Catches(r) == loop[r].caught = NoResult /\ loop'[r].caught # NoResult

\* C30 (exception in a poll iteration): when an exception is caught by the
\* try of a poll iteration and the loop is not cancelled, onUpdate is invoked
\* once with a Tier C result of status error that carries the exception's
\* message and an empty transcript, the videoId has no handle any more and
\* the loop stops; when the loop is cancelled by then, the catch block
\* delivers nothing and leaves the registry alone; after either, the loop
\* issues no check and invokes no callback.
C30_PollExceptionReported ==
  /\ [][\A r \in Req :
          Catches(r) =>
            /\ loop'[r].st = "stopped"
            /\ loop'[r].checks = loop[r].checks
            /\ loop'[r].attempts = loop[r].attempts
            /\ IF loop'[r].cancelled
               THEN /\ nUpd'[r] = nUpd[r] + 1
                    /\ lastUpd'[r].error \notin {"callback failed", "Poll failed"}
               ELSE /\ nUpd'[r] = nUpd[r] + 2
                    /\ lastUpd'[r].tier = "C" /\ lastUpd'[r].status = "error"
                    /\ lastUpd'[r].transcript = "[]"
                    /\ loop'[r].caught.error # "-" =>
                          lastUpd'[r].error = loop'[r].caught.error
                    /\ activePolls'[vid[r]] = 0]_vars
  /\ [][\A r \in Req :
          loop[r].caught # NoResult =>
            (nUpd'[r] = nUpd[r] /\ loop'[r] = loop[r]
               /\ activePolls'[vid[r]] = activePolls[vid[r]])]_vars

\* a loop delivered a processing status, its callback threw on the second
\* delivery, and the error carrying the callback's message was delivered
C30_Witness ==
  \E r \in Req :
    /\ loop[r].caught = Thrown(vid[r], "callback failed")
    /\ ~loop[r].cancelled /\ loop[r].st = "stopped"
    /\ loop[r].checks = 2 /\ nUpd[r] = 3
    /\ lastUpd[r] = TierCResult(vid[r], "error", "callback failed")
    /\ activePolls[vid[r]] = 0

\* C31 as stated (clean cancellation): a loop whose cancel() has run has no
\* pending timer, also when cancel was invoked from inside its own onUpdate.
C31_CancelledLoopHasNoTimer ==
  \A r \in Req : loop[r].cancelled => loop[r].st # "timer"

\* call q was made by an onUpdate that a poll loop was invoking with a
\* terminal result
StartedInTerminalDelivery(q) ==
  inputs[q].parent # 0 /\ inputs[q].parentStatus \in {"complete", "error"}

\* C35 (a poll started from a terminal delivery keeps its handle): when the
\* onUpdate invoked with a terminal result retrieves the same videoId again,
\* the loop that retrieval starts is registered under the videoId for as
\* long as it runs uncancelled, the loop that made the delivery does not
\* remove its handle, and cancelActivePoll(videoId) cancels it.
C35_RestartedPollKeepsHandle ==
  /\ [](\A q \in Req :
          (StartedInTerminalDelivery(q) /\ LiveLoop(q)) =>
             (activePolls[vid[q]] = q /\ loop[inputs[q].parent].st = "stopped"))
  /\ [][\A q \in Req :
          (StartedInTerminalDelivery(q) /\ LiveLoop(q) /\ CancelStep(vid[q])) =>
             (loop'[q].cancelled /\ activePolls'[vid[q]] = 0)]_vars

\* the loop of call 1 delivered a terminal result, its callback retrieved the
\* video again, and the loop of that retrieval is registered and waits for
\* its timer
C35_Witness ==
  \E q \in Req :
    /\ StartedInTerminalDelivery(q)
    /\ Terminal(lastUpd[inputs[q].parent])
    /\ LiveLoop(q) /\ loop[q].st = "timer"
    /\ activePolls[vid[q]] = q

C33_NoCallbackAfterCleanup ==
  [][observer.st = "cleaned" => observer'.calls = observer.calls]_vars

\* C34 as stated (cancel before the handle is registered): a call for which
\* cancelActivePoll(videoId) was called while it, or its background flow,
\* awaited checkStatus or submit registers no poll afterwards and invokes
\* onUpdate no more.
C34_EarlyCancelStopsRequest ==
  [][\A r \in Req :
       inputs[r].earlyCancel =>
         (loop'[r].st = loop[r].st /\ activePolls'[vid[r]] # r
            /\ nUpd'[r] = nUpd[r])]_vars

\* C36 as stated (cache writes keep their video): every CACHE_TRANSCRIPT
\* message the content script sends stores a result under the videoId the
\* result was retrieved for.
C36_CacheWriteUnderOwnVideo ==
  \A w \in cacheWrites : w.result.vid = w.videoId

\* C37 as stated (index and entries consistent under concurrency): when
\* cacheTranscript and removeCacheEntry operations that overlap only on
\* different videoIds have all completed, the index has a record for
\* exactly the videoIds whose entries are stored.
C37_IndexMatchesEntries ==
  CacheIdle => \A v \in Videos : Stored(v) <=> Indexed(v)

\* C38 as stated (the sweep removes no fresh entry): whenever the remove
\* issued by cleanupExpiredEntries deletes a stored entry, that entry is
\* past its time to live at that moment.
C38_SweepSparesFreshEntries ==
  [][\A t \in CTasks :
       (ctask[t].op = "cleanupExpiredEntries" /\ Completes(t, "remove")
          /\ Stored(ctask[t].v)) =>
         Expired(entries[ctask[t].v], now)]_vars

\* C39 (no callback, no poll): a getTranscript call made without onUpdate
\* never starts a poll loop and never has a handle registered, whatever the
\* adapters and the backend answer; it invokes no callback and fetches from
\* the backend at most for one status check and one submit.
C39_NoCallbackNoPoll ==
  \A r \in Req :
    (pc[r] # "unused" /\ ~hasCb[r]) =>
       /\ loop[r] = NoLoop
       /\ activePolls[vid[r]] # r
       /\ nUpd[r] = 0
       /\ netCalls[r] <= 2

\* two calls without a callback ended on the paths that start a poll when
\* there is one: a synchronous Tier C check that answered processing, and a
\* background flow that submitted after a failed check
C39_Witness ==
  \E r1 \in Req, r2 \in Req :
    /\ ~hasCb[r1] /\ pc[r1] = "done" /\ inputs[r1].check = "processing"
    /\ ret[r1] = TierCResult(vid[r1], "processing", "-")
    /\ ~hasCb[r2] /\ bg[r2] = "done" /\ inputs[r2].bgSubmits = 1
    /\ netCalls[r2] = 2 /\ loop[r2] = NoLoop

\* C40 (every poll loop terminates): a started loop, cancelled or not, stops
\* once its status checks have resolved; it issues at most MaxAttempts
\* checks and its call invokes onUpdate at most MaxAttempts + 1 times; a
\* stopped loop has no timer pending, is not the registered handle of its
\* videoId, and does nothing any more.
C40_PollLoopTerminates ==
  /\ \A r \in Req : PollStarted(r) ~> (loop[r].st = "stopped")
  /\ [](\A r \in Req :
          /\ loop[r].checks <= MaxAttempts
          /\ PollStarted(r) => nUpd[r] <= MaxAttempts + 1
          /\ loop[r].st = "stopped" => activePolls[vid[r]] # r)
  /\ [][\A r \in Req :
          loop[r].st = "stopped" =>
             (loop'[r] = loop[r] /\ nUpd'[r] = nUpd[r]
                /\ netCalls'[r] = netCalls[r])]_vars

\* a loop was cancelled while its last status check was in flight and
\* stopped when that check resolved, having delivered one update
C40_Witness ==
  \E r \in Req :
    /\ loop[r].st = "stopped" /\ loop[r].cancelled
    /\ loop[r].checks = MaxAttempts /\ nUpd[r] = MaxAttempts - 1
    /\ activePolls[vid[r]] = 0

====
